---- MODULE Spec2Model ----
(***************************************************************************)
(* Model of the chess rules engine of chess_engine/board.py: the Board     *)
(* state, the pseudo-legal generators, the try/test/revert legal-move      *)
(* filter, make_move / undo_move and the castling-rights bookkeeping;      *)
(* plus the geometric attack query of chess_engine/rules.py.               *)
(*                                                                         *)
(* Rows and columns are the code's: row 0 is rank 8, row 7 is rank 1,      *)
(* column 0 is the a-file.  A piece is written by its FEN symbol           *)
(* (Piece.symbol): upper case for white, lower case for black.             *)
(***************************************************************************)
EXTENDS Integers, Sequences, FiniteSets

VARIABLES squares, white_to_move, move_log,
          white_king_location, black_king_location,
          white_king_side_castle, white_queen_side_castle,
          black_king_side_castle, black_queen_side_castle,
          en_passant_possible, checkmate, stalemate,
          pieces, follow_moved

vars == <<squares, white_to_move, move_log,
          white_king_location, black_king_location,
          white_king_side_castle, white_queen_side_castle,
          black_king_side_castle, black_queen_side_castle,
          en_passant_possible, checkmate, stalemate,
          pieces, follow_moved>>

-----------------------------------------------------------------------------
(* Bounds of the exploration *)

\* make_move is not explored past this many moves in move_log
MaxPly == 12

\* while move_log is shorter than this, any move of get_valid_moves may be
\* played; later moves follow the lines of Book
FreePly == 1

\* where the moved fields of the pieces are followed, make_move is not
\* explored past this many moves in move_log
MovedPly == 2

-----------------------------------------------------------------------------
(* Pieces (chess_engine/pieces.py) *)

None == "None"

WhiteSymbols == {"P", "N", "B", "R", "Q", "K"}
BlackSymbols == {"p", "n", "b", "r", "q", "k"}

is_white(piece) == piece \in WhiteSymbols

piece_type(piece) ==
    CASE piece \in {"P", "p"} -> "P"
      [] piece \in {"N", "n"} -> "N"
      [] piece \in {"B", "b"} -> "B"
      [] piece \in {"R", "r"} -> "R"
      [] piece \in {"Q", "q"} -> "Q"
      [] piece \in {"K", "k"} -> "K"
      [] OTHER -> None

Pawn(white)   == IF white THEN "P" ELSE "p"
Knight(white) == IF white THEN "N" ELSE "n"
Bishop(white) == IF white THEN "B" ELSE "b"
Rook(white)   == IF white THEN "R" ELSE "r"
Queen(white)  == IF white THEN "Q" ELSE "q"
King(white)   == IF white THEN "K" ELSE "k"

OnBoard(row, col) == 0 <= row /\ row < 8 /\ 0 <= col /\ col < 8

abs(x) == IF x < 0 THEN -x ELSE x

-----------------------------------------------------------------------------
(* Board state (Board.__init__ / Board.reset_board) *)

StartSquares ==
    [row \in 0..7 |-> [col \in 0..7 |->
        CASE row = 1 -> Pawn(FALSE)
          [] row = 6 -> Pawn(TRUE)
          [] row \in {0, 7} /\ col \in {0, 7} -> Rook(row = 7)
          [] row \in {0, 7} /\ col \in {1, 6} -> Knight(row = 7)
          [] row \in {0, 7} /\ col \in {2, 5} -> Bishop(row = 7)
          [] row \in {0, 7} /\ col = 3 -> Queen(row = 7)
          [] row \in {0, 7} /\ col = 4 -> King(row = 7)
          [] OTHER -> None]]

reset_board ==
    [squares |-> StartSquares,
     white_to_move |-> TRUE,
     move_log |-> <<>>,
     white_king_location |-> <<7, 4>>,
     black_king_location |-> <<0, 4>>,
     white_king_side_castle |-> TRUE,
     white_queen_side_castle |-> TRUE,
     black_king_side_castle |-> TRUE,
     black_queen_side_castle |-> TRUE,
     en_passant_possible |-> <<>>,
     checkmate |-> FALSE,
     stalemate |-> FALSE]

CastleRights(wks, wqs, bks, bqs) ==
    [wks |-> wks, wqs |-> wqs, bks |-> bks, bqs |-> bqs]

\* Move.__init__: the pieces are read from the board the move is built on
Move(start_square, end_square, board, is_en_passant_move, is_castle_move) ==
    LET start_row == start_square[1]
        start_col == start_square[2]
        end_row   == end_square[1]
        end_col   == end_square[2]
        moved     == board.squares[start_row][start_col]
        promo     == piece_type(moved) = "P"
                     /\ ((is_white(moved) /\ end_row = 0)
                         \/ (~is_white(moved) /\ end_row = 7))
    IN [start_row |-> start_row, start_col |-> start_col,
        end_row |-> end_row, end_col |-> end_col,
        piece_moved |-> moved,
        piece_captured |-> IF is_en_passant_move
                           THEN board.squares[start_row][end_col]
                           ELSE board.squares[end_row][end_col],
        is_pawn_promotion |-> promo,
        promotion_piece |-> IF promo THEN Queen(is_white(moved)) ELSE None,
        is_en_passant_move |-> is_en_passant_move,
        is_castle_move |-> is_castle_move,
        castle_rights |-> None,
        en_passant_possible |-> None]

\* Move.__eq__: origin and destination only
MoveEq(m1, m2) ==
    /\ m1.start_row = m2.start_row
    /\ m1.start_col = m2.start_col
    /\ m1.end_row = m2.end_row
    /\ m1.end_col = m2.end_col

-----------------------------------------------------------------------------
(* Board._update_castle_rights *)

\* a variant in which the capture test is chained to the king/rook tests
\* with elif, so that a king or rook capturing a rook does not clear the
\* captured side's flag
_update_castle_rights_elif(b, move) ==
    LET pm == move.piece_moved
        pc == move.piece_captured
    IN IF piece_type(pm) = "K"
       THEN IF is_white(pm)
            THEN [b EXCEPT !.white_king_side_castle = FALSE,
                           !.white_queen_side_castle = FALSE]
            ELSE [b EXCEPT !.black_king_side_castle = FALSE,
                           !.black_queen_side_castle = FALSE]
       ELSE IF piece_type(pm) = "R"
       THEN IF is_white(pm)
            THEN IF move.start_row = 7 /\ move.start_col = 0
                 THEN [b EXCEPT !.white_queen_side_castle = FALSE]
                 ELSE IF move.start_row = 7 /\ move.start_col = 7
                 THEN [b EXCEPT !.white_king_side_castle = FALSE]
                 ELSE b
            ELSE IF move.start_row = 0 /\ move.start_col = 0
                 THEN [b EXCEPT !.black_queen_side_castle = FALSE]
                 ELSE IF move.start_row = 0 /\ move.start_col = 7
                 THEN [b EXCEPT !.black_king_side_castle = FALSE]
                 ELSE b
       ELSE IF pc # None /\ piece_type(pc) = "R"
       THEN IF ~is_white(pc)
            THEN IF move.end_row = 0 /\ move.end_col = 0
                 THEN [b EXCEPT !.black_queen_side_castle = FALSE]
                 ELSE IF move.end_row = 0 /\ move.end_col = 7
                 THEN [b EXCEPT !.black_king_side_castle = FALSE]
                 ELSE b
            ELSE IF move.end_row = 7 /\ move.end_col = 0
                 THEN [b EXCEPT !.white_queen_side_castle = FALSE]
                 ELSE IF move.end_row = 7 /\ move.end_col = 7
                 THEN [b EXCEPT !.white_king_side_castle = FALSE]
                 ELSE b
       ELSE b

\* a variant that takes a king for a queen: the move of a king clears no
\* right
_update_castle_rights_king_moves(b, move) ==
    _update_castle_rights_elif(
        b, [move EXCEPT !.piece_moved = IF piece_type(@) = "K"
                                        THEN Queen(is_white(@)) ELSE @])

_update_castle_rights(b, move) ==
    LET pm == move.piece_moved
        pc == move.piece_captured
        \* if king moves ... elif rook moves
        b1 == IF piece_type(pm) = "K"
              THEN IF is_white(pm)
                   THEN [b EXCEPT !.white_king_side_castle = FALSE,
                                  !.white_queen_side_castle = FALSE]
                   ELSE [b EXCEPT !.black_king_side_castle = FALSE,
                                  !.black_queen_side_castle = FALSE]
              ELSE IF piece_type(pm) = "R"
              THEN IF is_white(pm)
                   THEN IF move.start_row = 7 /\ move.start_col = 0
                        THEN [b EXCEPT !.white_queen_side_castle = FALSE]
                        ELSE IF move.start_row = 7 /\ move.start_col = 7
                        THEN [b EXCEPT !.white_king_side_castle = FALSE]
                        ELSE b
                   ELSE IF move.start_row = 0 /\ move.start_col = 0
                        THEN [b EXCEPT !.black_queen_side_castle = FALSE]
                        ELSE IF move.start_row = 0 /\ move.start_col = 7
                        THEN [b EXCEPT !.black_king_side_castle = FALSE]
                        ELSE b
              ELSE b
        \* if a rook is captured
    IN IF pc # None /\ piece_type(pc) = "R"
       THEN IF ~is_white(pc)
            THEN IF move.end_row = 0 /\ move.end_col = 0
                 THEN [b1 EXCEPT !.black_queen_side_castle = FALSE]
                 ELSE IF move.end_row = 0 /\ move.end_col = 7
                 THEN [b1 EXCEPT !.black_king_side_castle = FALSE]
                 ELSE b1
            ELSE IF move.end_row = 7 /\ move.end_col = 0
                 THEN [b1 EXCEPT !.white_queen_side_castle = FALSE]
                 ELSE IF move.end_row = 7 /\ move.end_col = 7
                 THEN [b1 EXCEPT !.white_king_side_castle = FALSE]
                 ELSE b1
       ELSE b1

-----------------------------------------------------------------------------
(* Board.make_move / Board.undo_move *)

SetSq(sq, row, col, piece) == [sq EXCEPT ![row][col] = piece]

\* a variant whose snapshot records every right as still held
CurrentRights_granted(b) == CastleRights(TRUE, TRUE, TRUE, TRUE)

\* the CastleRights snapshot make_move stores on the move
CurrentRights(b) ==
    CastleRights(b.white_king_side_castle, b.white_queen_side_castle,
                 b.black_king_side_castle, b.black_queen_side_castle)

\* a variant that sets the en passant square on a two-square pawn advance
\* and otherwise leaves it as it is
en_passant_after_sticky(b, move) ==
    IF piece_type(move.piece_moved) = "P"
       /\ abs(move.start_row - move.end_row) = 2
    THEN <<(move.start_row + move.end_row) \div 2, move.start_col>>
    ELSE b.en_passant_possible

\* make_move, "update en passant possibility": the value given to
\* en_passant_possible
en_passant_after(b, move) ==
    IF piece_type(move.piece_moved) = "P"
       /\ abs(move.start_row - move.end_row) = 2
    THEN <<(move.start_row + move.end_row) \div 2, move.start_col>>
    ELSE <<>>

\* make_move raises: an attribute of the piece moved is read where the
\* start square held none, or of the castling rook where the corner it is
\* taken from holds none
make_move_raises(b, move) ==
    \/ move.piece_moved = None
    \/ /\ move.is_castle_move
       /\ b.squares[move.end_row]
                    [IF move.end_col - move.start_col = 2 THEN 7 ELSE 0] = None

make_move(b, move) ==
    LET pm == move.piece_moved
        \* empty the source square, place the piece on the destination
        sq1 == SetSq(SetSq(b.squares, move.start_row, move.start_col, None),
                     move.end_row, move.end_col, pm)
        \* log the move with castle rights and en passant square
        logged == [move EXCEPT !.castle_rights = CurrentRights(b),
                               !.en_passant_possible = b.en_passant_possible]
        \* pawn promotion
        sq2 == IF move.is_pawn_promotion
               THEN SetSq(sq1, move.end_row, move.end_col, move.promotion_piece)
               ELSE sq1
        \* en passant capture: remove the captured pawn
        sq3 == IF move.is_en_passant_move
               THEN SetSq(sq2, move.start_row, move.end_col, None)
               ELSE sq2
        \* en passant possibility
        ep == en_passant_after(b, move)
        \* castling: relocate the rook
        rook_start_col == IF move.end_col - move.start_col = 2 THEN 7 ELSE 0
        rook_end_col   == IF move.end_col - move.start_col = 2 THEN 5 ELSE 3
        sq4 == IF move.is_castle_move
               THEN SetSq(SetSq(sq3, move.end_row, rook_start_col, None),
                          move.end_row, rook_end_col,
                          sq3[move.end_row][rook_start_col])
               ELSE sq3
        b1 == [b EXCEPT
                 !.squares = sq4,
                 !.move_log = Append(b.move_log, logged),
                 !.white_to_move = ~b.white_to_move,
                 !.white_king_location =
                     IF piece_type(pm) = "K" /\ is_white(pm)
                     THEN <<move.end_row, move.end_col>> ELSE @,
                 !.black_king_location =
                     IF piece_type(pm) = "K" /\ ~is_white(pm)
                     THEN <<move.end_row, move.end_col>> ELSE @,
                 !.en_passant_possible = ep]
    IN _update_castle_rights(b1, move)

\* a variant that takes the last two records off the log
pop_two(log) == SubSeq(log, 1, Len(log) - 2)

\* move_log.pop(): the log without its last record
pop(log) == SubSeq(log, 1, Len(log) - 1)

\* a variant that forgets to put the castled rook back on its corner
undo_move_no_rook(b) ==
    IF b.move_log = <<>> THEN b
    ELSE
    LET move == b.move_log[Len(b.move_log)]
        pm == move.piece_moved
        sq1 == SetSq(SetSq(b.squares, move.start_row, move.start_col, pm),
                     move.end_row, move.end_col, move.piece_captured)
        sq2 == IF move.is_en_passant_move
               THEN SetSq(SetSq(sq1, move.end_row, move.end_col, None),
                          move.start_row, move.end_col, move.piece_captured)
               ELSE sq1
    IN [b EXCEPT
          !.squares = sq2,
          !.move_log = SubSeq(b.move_log, 1, Len(b.move_log) - 1),
          !.white_to_move = ~b.white_to_move,
          !.white_king_location =
              IF piece_type(pm) = "K" /\ is_white(pm)
              THEN <<move.start_row, move.start_col>> ELSE @,
          !.black_king_location =
              IF piece_type(pm) = "K" /\ ~is_white(pm)
              THEN <<move.start_row, move.start_col>> ELSE @,
          !.en_passant_possible = move.en_passant_possible,
          !.white_king_side_castle = move.castle_rights.wks,
          !.white_queen_side_castle = move.castle_rights.wqs,
          !.black_king_side_castle = move.castle_rights.bks,
          !.black_queen_side_castle = move.castle_rights.bqs,
          !.checkmate = FALSE,
          !.stalemate = FALSE]

\* the board after undo_move(); with an empty move_log nothing changes
\* (the call returns False)
undo_move(b) ==
    IF b.move_log = <<>> THEN b
    ELSE
    LET move == b.move_log[Len(b.move_log)]
        pm == move.piece_moved
        \* restore positions
        sq1 == SetSq(SetSq(b.squares, move.start_row, move.start_col, pm),
                     move.end_row, move.end_col, move.piece_captured)
        \* en passant: destination empty again, captured pawn back
        sq2 == IF move.is_en_passant_move
               THEN SetSq(SetSq(sq1, move.end_row, move.end_col, None),
                          move.start_row, move.end_col, move.piece_captured)
               ELSE sq1
        \* castling: rook back from f/d file to its corner
        rook_from == IF move.end_col - move.start_col = 2 THEN 5 ELSE 3
        rook_to   == IF move.end_col - move.start_col = 2 THEN 7 ELSE 0
        sq3 == IF move.is_castle_move
               THEN SetSq(SetSq(sq2, move.end_row, rook_from, None),
                          move.end_row, rook_to, sq2[move.end_row][rook_from])
               ELSE sq2
    IN [b EXCEPT
          !.squares = sq3,
          !.move_log = pop(b.move_log),
          !.white_to_move = ~b.white_to_move,
          !.white_king_location =
              IF piece_type(pm) = "K" /\ is_white(pm)
              THEN <<move.start_row, move.start_col>> ELSE @,
          !.black_king_location =
              IF piece_type(pm) = "K" /\ ~is_white(pm)
              THEN <<move.start_row, move.start_col>> ELSE @,
          !.en_passant_possible = move.en_passant_possible,
          !.white_king_side_castle = move.castle_rights.wks,
          !.white_queen_side_castle = move.castle_rights.wqs,
          !.black_king_side_castle = move.castle_rights.bks,
          !.black_queen_side_castle = move.castle_rights.bqs,
          !.checkmate = FALSE,
          !.stalemate = FALSE]

\* a variant that reports success whatever the log holds
undo_move_result_true(b) == TRUE

\* the value undo_move() returns: False with an empty move_log
undo_move_result(b) == b.move_log # <<>>

-----------------------------------------------------------------------------
(* Pseudo-legal generators (Board._get_*_moves) *)

\* the moves to the squares (row, col) + offsets[i] that are on the board
\* and empty or held by an opponent's piece, in the order of the offsets
OffsetMoves(b, row, col, offsets) ==
    LET piece == b.squares[row][col]
        Open(o) == /\ OnBoard(row + o[1], col + o[2])
                   /\ LET end_piece == b.squares[row + o[1]][col + o[2]]
                      IN end_piece = None \/ is_white(end_piece) # is_white(piece)
        sel == SelectSeq(offsets, Open)
    IN [i \in 1..Len(sel) |->
          Move(<<row, col>>, <<row + sel[i][1], col + sel[i][2]>>, b, FALSE, FALSE)]

\* one direction of a bishop/rook walk, from the given distance on
RECURSIVE RayMoves(_, _, _, _, _, _)
RayMoves(b, row, col, direction_row, direction_col, distance) ==
    LET end_row == row + direction_row * distance
        end_col == col + direction_col * distance
    IN IF distance > 7 \/ ~OnBoard(end_row, end_col) THEN <<>>
       ELSE LET end_piece == b.squares[end_row][end_col]
                m == Move(<<row, col>>, <<end_row, end_col>>, b, FALSE, FALSE)
            IN IF end_piece = None
               THEN <<m>> \o RayMoves(b, row, col, direction_row, direction_col,
                                      distance + 1)
               ELSE IF is_white(end_piece) # is_white(b.squares[row][col])
               THEN <<m>>
               ELSE <<>>

SlideMoves(b, row, col, directions) ==
    RayMoves(b, row, col, directions[1][1], directions[1][2], 1)
    \o RayMoves(b, row, col, directions[2][1], directions[2][2], 1)
    \o RayMoves(b, row, col, directions[3][1], directions[3][2], 1)
    \o RayMoves(b, row, col, directions[4][1], directions[4][2], 1)

\* a variant that never offers the en passant capture
_get_pawn_moves_no_ep(b, row, col) ==
    LET piece == b.squares[row][col]
        direction == IF is_white(piece) THEN -1 ELSE 1
        start_row == IF is_white(piece) THEN 6 ELSE 1
        forward ==
            IF 0 <= row + direction /\ row + direction < 8
               /\ b.squares[row + direction][col] = None
            THEN <<Move(<<row, col>>, <<row + direction, col>>, b, FALSE, FALSE)>>
                 \o (IF row = start_row /\ b.squares[row + 2 * direction][col] = None
                     THEN <<Move(<<row, col>>, <<row + 2 * direction, col>>, b,
                                 FALSE, FALSE)>>
                     ELSE <<>>)
            ELSE <<>>
        Capture(col_offset) ==
            LET capture_col == col + col_offset
            IN IF 0 <= capture_col /\ capture_col < 8
                  /\ 0 <= row + direction /\ row + direction < 8
               THEN LET capture_piece == b.squares[row + direction][capture_col]
                    IN IF capture_piece # None
                          /\ is_white(capture_piece) # is_white(piece)
                       THEN <<Move(<<row, col>>, <<row + direction, capture_col>>,
                                   b, FALSE, FALSE)>>
                       ELSE <<>>
               ELSE <<>>
    IN IF piece = None \/ piece_type(piece) # "P" THEN <<>>
       ELSE forward \o Capture(-1) \o Capture(1)

_get_pawn_moves(b, row, col) ==
    LET piece == b.squares[row][col]
        direction == IF is_white(piece) THEN -1 ELSE 1
        start_row == IF is_white(piece) THEN 6 ELSE 1
        forward ==
            IF 0 <= row + direction /\ row + direction < 8
               /\ b.squares[row + direction][col] = None
            THEN <<Move(<<row, col>>, <<row + direction, col>>, b, FALSE, FALSE)>>
                 \o (IF row = start_row /\ b.squares[row + 2 * direction][col] = None
                     THEN <<Move(<<row, col>>, <<row + 2 * direction, col>>, b,
                                 FALSE, FALSE)>>
                     ELSE <<>>)
            ELSE <<>>
        Capture(col_offset) ==
            LET capture_col == col + col_offset
            IN IF 0 <= capture_col /\ capture_col < 8
                  /\ 0 <= row + direction /\ row + direction < 8
               THEN LET capture_piece == b.squares[row + direction][capture_col]
                    IN IF capture_piece # None
                          /\ is_white(capture_piece) # is_white(piece)
                       THEN <<Move(<<row, col>>, <<row + direction, capture_col>>,
                                   b, FALSE, FALSE)>>
                       ELSE IF <<row + direction, capture_col>> = b.en_passant_possible
                       THEN <<Move(<<row, col>>, <<row + direction, capture_col>>,
                                   b, TRUE, FALSE)>>
                       ELSE <<>>
               ELSE <<>>
    IN IF piece = None \/ piece_type(piece) # "P" THEN <<>>
       ELSE forward \o Capture(-1) \o Capture(1)

KnightOffsets ==
    << <<-2, -1>>, <<-2, 1>>, <<-1, -2>>, <<-1, 2>>,
       <<1, -2>>, <<1, 2>>, <<2, -1>>, <<2, 1>> >>

\* a variant that knows only the four jumps towards row 0
_get_knight_moves_short(b, row, col) ==
    LET piece == b.squares[row][col]
    IN IF piece = None \/ piece_type(piece) # "N" THEN <<>>
       ELSE OffsetMoves(b, row, col, SubSeq(KnightOffsets, 1, 4))

_get_knight_moves(b, row, col) ==
    LET piece == b.squares[row][col]
    IN IF piece = None \/ piece_type(piece) # "N" THEN <<>>
       ELSE OffsetMoves(b, row, col, KnightOffsets)

DiagonalDirections == << <<-1, -1>>, <<-1, 1>>, <<1, -1>>, <<1, 1>> >>

_get_bishop_moves(b, row, col) ==
    LET piece == b.squares[row][col]
    IN IF piece = None \/ (piece_type(piece) # "B" /\ piece_type(piece) # "Q")
       THEN <<>>
       ELSE SlideMoves(b, row, col, DiagonalDirections)

StraightDirections == << <<-1, 0>>, <<1, 0>>, <<0, -1>>, <<0, 1>> >>

_get_rook_moves(b, row, col) ==
    LET piece == b.squares[row][col]
    IN IF piece = None \/ (piece_type(piece) # "R" /\ piece_type(piece) # "Q")
       THEN <<>>
       ELSE SlideMoves(b, row, col, StraightDirections)

KingDirections ==
    << <<-1, -1>>, <<-1, 0>>, <<-1, 1>>, <<0, -1>>,
       <<0, 1>>, <<1, -1>>, <<1, 0>>, <<1, 1>> >>

_get_king_moves(b, row, col) ==
    LET piece == b.squares[row][col]
    IN IF piece = None \/ piece_type(piece) # "K" THEN <<>>
       ELSE OffsetMoves(b, row, col, KingDirections)

\* the moves of the piece on (row, col), if it belongs to the side to move
PieceMoves(b, row, col) ==
    LET piece == b.squares[row][col]
    IN IF piece = None \/ is_white(piece) # b.white_to_move THEN <<>>
       ELSE CASE piece_type(piece) = "P" -> _get_pawn_moves(b, row, col)
              [] piece_type(piece) = "N" -> _get_knight_moves(b, row, col)
              [] piece_type(piece) = "B" -> _get_bishop_moves(b, row, col)
              [] piece_type(piece) = "R" -> _get_rook_moves(b, row, col)
              [] piece_type(piece) = "Q" -> _get_bishop_moves(b, row, col)
                                            \o _get_rook_moves(b, row, col)
              [] piece_type(piece) = "K" -> _get_king_moves(b, row, col)

\* the row-major scan of the squares with index (= 8 * row + col) from
\* first to last: the moves of the lower half, then those of the upper half
RECURSIVE Scan(_, _, _)
Scan(b, first, last) ==
    IF first = last THEN PieceMoves(b, first \div 8, first % 8)
    ELSE Scan(b, first, (first + last) \div 2)
         \o Scan(b, (first + last) \div 2 + 1, last)

_get_all_possible_moves(b) == Scan(b, 0, 63)

-----------------------------------------------------------------------------
(* Check and attack tests of the Board *)

Flip(b) == [b EXCEPT !.white_to_move = ~@]

\* does some move of the list end on (row, col)
EndsOn(moves, row, col) ==
    \E i \in 1..Len(moves) : moves[i].end_row = row /\ moves[i].end_col = col

\* Board._is_in_check: the side to move is flipped for the generation of
\* the opponent's moves and flipped back, so the board is left as it was
_is_in_check(b) ==
    LET king == IF b.white_to_move THEN b.white_king_location
                ELSE b.black_king_location
        opponent_moves == _get_all_possible_moves(Flip(b))
    IN EndsOn(opponent_moves, king[1], king[2])

\* Board._is_square_attacked
_is_square_attacked(b, row, col) ==
    LET opponent_moves == _get_all_possible_moves(Flip(b))
    IN EndsOn(opponent_moves, row, col)

-----------------------------------------------------------------------------
(* Castling generation *)

_get_kingside_castle_moves(b, row, col, moves) ==
    IF b.squares[row][col + 1] = None /\ b.squares[row][col + 2] = None
       /\ ~_is_square_attacked(b, row, col + 1)
       /\ ~_is_square_attacked(b, row, col + 2)
    THEN Append(moves, Move(<<row, col>>, <<row, col + 2>>, b, FALSE, TRUE))
    ELSE moves

_get_queenside_castle_moves(b, row, col, moves) ==
    IF b.squares[row][col - 1] = None /\ b.squares[row][col - 2] = None
       /\ b.squares[row][col - 3] = None
       /\ ~_is_square_attacked(b, row, col - 1)
       /\ ~_is_square_attacked(b, row, col - 2)
    THEN Append(moves, Move(<<row, col>>, <<row, col - 2>>, b, FALSE, TRUE))
    ELSE moves

\* a variant that asks for the right of the other wing
_get_castle_moves_swapped(b, row, col, moves) ==
    LET ks == IF (b.white_to_move /\ b.white_queen_side_castle)
                 \/ (~b.white_to_move /\ b.black_queen_side_castle)
              THEN _get_kingside_castle_moves(b, row, col, moves)
              ELSE moves
    IN IF (b.white_to_move /\ b.white_king_side_castle)
          \/ (~b.white_to_move /\ b.black_king_side_castle)
       THEN _get_queenside_castle_moves(b, row, col, ks)
       ELSE ks

_get_castle_moves(b, row, col, moves) ==
    LET ks == IF (b.white_to_move /\ b.white_king_side_castle)
                 \/ (~b.white_to_move /\ b.black_king_side_castle)
              THEN _get_kingside_castle_moves(b, row, col, moves)
              ELSE moves
    IN IF (b.white_to_move /\ b.white_queen_side_castle)
          \/ (~b.white_to_move /\ b.black_queen_side_castle)
       THEN _get_queenside_castle_moves(b, row, col, ks)
       ELSE ks

-----------------------------------------------------------------------------
(* Board.get_valid_moves *)

\* list.remove: the list without its first element equal (Move.__eq__) to
\* move; the move is in the list
Remove_kept(moves, move) == moves

Remove(moves, move) ==
    LET first == CHOOSE k \in 1..Len(moves) :
                     /\ MoveEq(moves[k], move)
                     /\ \A j \in 1..(k - 1) : ~MoveEq(moves[j], move)
    IN SubSeq(moves, 1, first - 1) \o SubSeq(moves, first + 1, Len(moves))

\* a variant of the loop body that goes on without undoing the move
FilterTest_no_undo(made, moves, move) ==
    [moves |-> IF _is_in_check(made) THEN Remove(moves, move) ELSE moves,
     board |-> Flip(made)]

\* the loop body after make_move and the flip of the side to move back to
\* the mover (made): test the mover's king, flip again, undo
FilterTest(made, moves, move) ==
    [moves |-> IF _is_in_check(made) THEN Remove(moves, move) ELSE moves,
     board |-> undo_move(Flip(made))]

\* the loop body for list index i (counted from 0)
FilterStep(b, moves, i) ==
    FilterTest(Flip(make_move(b, moves[i + 1])), moves, moves[i + 1])

\* the iterations for the list indices hi down to lo, on the list and the
\* board of state: those of the upper half of the range, then those of the
\* lower half.  The list still holds the entries up to the index reached,
\* since only entries already tested are removed; FilterLower looks at
\* the list left by the upper half before the lower half is begun
RECURSIVE FilterRange(_, _, _)
RECURSIVE FilterLower(_, _, _)
FilterRange(state, hi, lo) ==
    IF hi < lo THEN state
    ELSE IF hi = lo THEN FilterStep(state.board, state.moves, hi)
    ELSE FilterLower(FilterRange(state, hi, (hi + lo) \div 2 + 1),
                     (hi + lo) \div 2, lo)

FilterLower(upper, hi, lo) ==
    IF Len(upper.moves) > hi THEN FilterRange(upper, hi, lo) ELSE upper

\* for i in range(len(moves) - 1, -1, -1)
FilterLoop(b, moves) ==
    FilterRange([moves |-> moves, board |-> b], Len(moves) - 1, 0)

\* the same iterations with the calls of make_move counted; each body
\* calls make_move once and undo_move once
RECURSIVE FilterCallsRange(_, _, _)
RECURSIVE FilterCallsLower(_, _, _)
FilterCallsRange(counted, hi, lo) ==
    IF hi < lo THEN counted
    ELSE IF hi = lo
    THEN [state |-> FilterStep(counted.state.board, counted.state.moves, hi),
          calls |-> counted.calls + 1]
    ELSE FilterCallsLower(
             FilterCallsRange(counted, hi, (hi + lo) \div 2 + 1),
             (hi + lo) \div 2, lo)

FilterCallsLower(upper, hi, lo) ==
    IF Len(upper.state.moves) > hi THEN FilterCallsRange(upper, hi, lo)
    ELSE upper

\* the number of times the loop of get_valid_moves calls make_move, and
\* undo_move, on the board b with the list moves
FilterCalls(b, moves) ==
    FilterCallsRange([state |-> [moves |-> moves, board |-> b], calls |-> 0],
                     Len(moves) - 1, 0).calls

SetFlags_kept(board, empty, in_check) == board

\* step 5: the checkmate and stalemate flags
SetFlags(board, empty, in_check) ==
    [board EXCEPT !.checkmate = empty /\ in_check,
                  !.stalemate = empty /\ ~in_check]

\* steps 5 and 6 and the restore of the temporaries: b is the board on
\* entry, filtered the outcome of the loop, in_check the test of the king
Classify(b, filtered, in_check) ==
    LET empty == Len(filtered.moves) = 0
        king == IF filtered.board.white_to_move
                THEN filtered.board.white_king_location
                ELSE filtered.board.black_king_location
    IN [moves |-> IF ~in_check
                  THEN _get_castle_moves(
                           SetFlags(filtered.board, empty, in_check),
                           king[1], king[2], filtered.moves)
                  ELSE filtered.moves,
        board |-> [SetFlags(filtered.board, empty, in_check) EXCEPT
                     !.en_passant_possible = b.en_passant_possible,
                     !.white_king_side_castle = b.white_king_side_castle,
                     !.white_queen_side_castle = b.white_queen_side_castle,
                     !.black_king_side_castle = b.black_king_side_castle,
                     !.black_queen_side_castle = b.black_queen_side_castle]]

AfterFilter(b, filtered) == Classify(b, filtered, _is_in_check(filtered.board))

\* the list returned and the board as the call leaves it
get_valid_moves(b) == AfterFilter(b, FilterLoop(b, _get_all_possible_moves(b)))

-----------------------------------------------------------------------------
(* rules.is_square_attacked: the geometric attack query *)

RECURSIVE RayAttacked(_, _, _, _, _, _, _)
RayAttacked(b, row, col, dr, dc, i, white) ==
    LET r == row + i * dr
        c == col + i * dc
    IN IF i > 7 \/ ~OnBoard(r, c) THEN FALSE
       ELSE LET piece == b.squares[r][c]
            IN IF piece = None
               THEN RayAttacked(b, row, col, dr, dc, i + 1, white)
               ELSE /\ is_white(piece) # white
                    /\ \/ piece_type(piece) = "Q"
                       \/ (piece_type(piece) = "R" /\ dr * dc = 0)
                       \/ (piece_type(piece) = "B" /\ dr * dc # 0)

is_square_attacked_from_behind(b, row, col, white) ==
    LET PawnAt(r, c) == OnBoard(r, c) /\ b.squares[r][c] = Pawn(~white)
        pawn_row == IF white THEN row + 1 ELSE row - 1
    IN \/ PawnAt(pawn_row, col - 1)
       \/ PawnAt(pawn_row, col + 1)
       \/ \E k \in 1..8 :
             LET r == row + KnightOffsets[k][1]
                 c == col + KnightOffsets[k][2]
             IN OnBoard(r, c) /\ b.squares[r][c] = Knight(~white)
       \/ \E k \in 1..4 :
             \/ RayAttacked(b, row, col, StraightDirections[k][1],
                            StraightDirections[k][2], 1, white)
             \/ RayAttacked(b, row, col, DiagonalDirections[k][1],
                            DiagonalDirections[k][2], 1, white)
       \/ \E k \in 1..8 :
             LET r == row + KingDirections[k][1]
                 c == col + KingDirections[k][2]
             IN OnBoard(r, c) /\ b.squares[r][c] = King(~white)

is_square_attacked(b, row, col, white) ==
    LET PawnAt(r, c) == OnBoard(r, c) /\ b.squares[r][c] = Pawn(~white)
        pawn_row == IF white THEN row - 1 ELSE row + 1
    IN \/ PawnAt(pawn_row, col - 1)
       \/ PawnAt(pawn_row, col + 1)
       \/ \E k \in 1..8 :
             LET r == row + KnightOffsets[k][1]
                 c == col + KnightOffsets[k][2]
             IN OnBoard(r, c) /\ b.squares[r][c] = Knight(~white)
       \/ \E k \in 1..4 :
             \/ RayAttacked(b, row, col, StraightDirections[k][1],
                            StraightDirections[k][2], 1, white)
             \/ RayAttacked(b, row, col, DiagonalDirections[k][1],
                            DiagonalDirections[k][2], 1, white)
       \/ \E k \in 1..8 :
             LET r == row + KingDirections[k][1]
                 c == col + KingDirections[k][2]
             IN OnBoard(r, c) /\ b.squares[r][c] = King(~white)

\* rules.is_in_check
is_in_check(b, white) ==
    LET king == IF white THEN b.white_king_location ELSE b.black_king_location
    IN is_square_attacked(b, king[1], king[2], white)

\* the outcome of a test on the list get_valid_moves returned, and the board
\* as the call leaves it
NoMoves(valid) == [result |-> Len(valid.moves) = 0, board |-> valid.board]

\* rules.is_checkmate
is_checkmate(b) ==
    IF ~is_in_check(b, b.white_to_move) THEN [result |-> FALSE, board |-> b]
    ELSE NoMoves(get_valid_moves(b))

is_stalemate_unchecked(b) == NoMoves(get_valid_moves(b))

\* rules.is_stalemate
is_stalemate(b) ==
    IF is_in_check(b, b.white_to_move) THEN [result |-> FALSE, board |-> b]
    ELSE NoMoves(get_valid_moves(b))

\* the number of pieces of one kind and colour
Count(b, piece) ==
    Cardinality({at \in (0..7) \X (0..7) : b.squares[at[1]][at[2]] = piece})

\* white_bishop_on_white, white_bishop_on_black and the two for black
BishopOn(b, white, square_is_white) ==
    \E at \in (0..7) \X (0..7) :
        /\ b.squares[at[1]][at[2]] = Bishop(white)
        /\ ((at[1] + at[2]) % 2 = 0) = square_is_white

\* one side's counters: so many knights and bishops, nothing else but kings
Counters(b, white, knights, bishops) ==
    /\ Count(b, Knight(white)) = knights
    /\ Count(b, Bishop(white)) = bishops
    /\ Count(b, Rook(white)) = 0
    /\ Count(b, Queen(white)) = 0
    /\ Count(b, Pawn(white)) = 0

is_insufficient_material_any_squares(b) ==
    \/ Counters(b, TRUE, 0, 0) /\ Counters(b, FALSE, 0, 0)
    \/ Counters(b, TRUE, 0, 1) /\ Counters(b, FALSE, 0, 0)
    \/ Counters(b, TRUE, 0, 0) /\ Counters(b, FALSE, 0, 1)
    \/ Counters(b, TRUE, 1, 0) /\ Counters(b, FALSE, 0, 0)
    \/ Counters(b, TRUE, 0, 0) /\ Counters(b, FALSE, 1, 0)
    \/ Counters(b, TRUE, 0, 1) /\ Counters(b, FALSE, 0, 1)

\* rules.is_insufficient_material
is_insufficient_material(b) ==
    \/ Counters(b, TRUE, 0, 0) /\ Counters(b, FALSE, 0, 0)
    \/ Counters(b, TRUE, 0, 1) /\ Counters(b, FALSE, 0, 0)
    \/ Counters(b, TRUE, 0, 0) /\ Counters(b, FALSE, 0, 1)
    \/ Counters(b, TRUE, 1, 0) /\ Counters(b, FALSE, 0, 0)
    \/ Counters(b, TRUE, 0, 0) /\ Counters(b, FALSE, 1, 0)
    \/ /\ Counters(b, TRUE, 0, 1) /\ Counters(b, FALSE, 0, 1)
       /\ \/ BishopOn(b, TRUE, TRUE) /\ BishopOn(b, FALSE, TRUE)
          \/ BishopOn(b, TRUE, FALSE) /\ BishopOn(b, FALSE, FALSE)

\* rules.is_threefold_repetition.  With an empty move log the loop over the
\* log does not run and the function returns False; otherwise its first
\* pass calls board.copy(), which Board does not have: AttributeError.
is_threefold_repetition(b) ==
    [raised |-> b.move_log # <<>>, result |-> FALSE]

\* rules.is_fifty_move_rule
is_fifty_move_rule(b) == FALSE

Returned(result, b) == [raised |-> FALSE, result |-> result, board |-> b]

Raised(error, b) == [raised |-> TRUE, result |-> error, board |-> b]

\* rules.get_game_state past the two tests on the legal moves
DrawTests(b) ==
    IF is_insufficient_material(b) THEN Returned("insufficient_material", b)
    ELSE IF is_threefold_repetition(b).raised THEN Raised("AttributeError", b)
    ELSE IF is_threefold_repetition(b).result
         THEN Returned("threefold_repetition", b)
    ELSE IF is_fifty_move_rule(b) THEN Returned("fifty_move_rule", b)
    ELSE Returned("ongoing", b)

StalemateTest(stale) ==
    IF stale.result THEN Returned("stalemate", stale.board)
    ELSE DrawTests(stale.board)

CheckmateTest(mate) ==
    IF mate.result THEN Returned("checkmate", mate.board)
    ELSE StalemateTest(is_stalemate(mate.board))

\* rules.get_game_state: its answer, or the error it ends with, and the
\* board as it leaves it
get_game_state(b) == CheckmateTest(is_checkmate(b))

-----------------------------------------------------------------------------
(* The piece objects.  A square of the board holds a reference to a Piece   *)
(* that has a row, a col and a moved field of its own, and a move of        *)
(* move_log holds references to the piece it moved and the piece it         *)
(* captured.  A value p below has the fields of the objects the board       *)
(* refers to: p.squares[row][col] those of the piece on a square,           *)
(* p.move_log[k] those of the pieces the k-th move of move_log took off     *)
(* the board.                                                               *)

\* Piece.__init__: the fields a new piece has
Piece(row, col) == [row |-> row, col |-> col, moved |-> FALSE]

\* stands where a square or a move holds no piece
NoPiece == [row |-> -1, col |-> -1, moved |-> FALSE]

\* the pieces a board has just created on the squares sq, one for each
\* square that is not empty, and an empty move_log
NewPieces(sq) ==
    [squares |-> [row \in 0..7 |-> [col \in 0..7 |->
                     IF sq[row][col] = None THEN NoPiece
                     ELSE Piece(row, col)]],
     move_log |-> <<>>]

\* a variant of make_move that leaves the col of the castled rook alone
make_move_pieces_rook_col(p, move) ==
    LET piece_moved ==
            [p.squares[move.start_row][move.start_col] EXCEPT
                !.row = move.end_row, !.col = move.end_col, !.moved = TRUE]
        piece_captured ==
            IF move.is_en_passant_move
            THEN p.squares[move.start_row][move.end_col]
            ELSE p.squares[move.end_row][move.end_col]
        sq1 == SetSq(SetSq(p.squares, move.start_row, move.start_col, NoPiece),
                     move.end_row, move.end_col, piece_moved)
        sq2 == IF move.is_pawn_promotion
               THEN SetSq(sq1, move.end_row, move.end_col,
                          [Piece(move.end_row, move.end_col) EXCEPT
                              !.row = move.end_row, !.col = move.end_col])
               ELSE sq1
        sq3 == IF move.is_en_passant_move
               THEN SetSq(sq2, move.start_row, move.end_col, NoPiece)
               ELSE sq2
        rook_start_col == IF move.end_col - move.start_col = 2 THEN 7 ELSE 0
        rook_end_col   == IF move.end_col - move.start_col = 2 THEN 5 ELSE 3
        sq4 == IF move.is_castle_move
               THEN SetSq(SetSq(sq3, move.end_row, rook_start_col, NoPiece),
                          move.end_row, rook_end_col,
                          [sq3[move.end_row][rook_start_col] EXCEPT
                              !.moved = TRUE])
               ELSE sq3
    IN [squares |-> sq4,
        move_log |-> Append(p.move_log,
                        [piece_moved |-> IF move.is_pawn_promotion
                                         THEN piece_moved ELSE NoPiece,
                         piece_captured |-> piece_captured])]

\* make_move on the fields of the pieces: those of the piece moved are
\* set, the promotion piece is the Queen the Move made for its end square,
\* the castled rook gets its new col; the piece captured is kept by the
\* move as it is, and so is the pawn a promotion takes off the board (the
\* other pieces moved stay on the board, where undo_move finds them)
make_move_pieces(p, move) ==
    LET piece_moved ==
            [p.squares[move.start_row][move.start_col] EXCEPT
                !.row = move.end_row, !.col = move.end_col, !.moved = TRUE]
        piece_captured ==
            IF move.is_en_passant_move
            THEN p.squares[move.start_row][move.end_col]
            ELSE p.squares[move.end_row][move.end_col]
        sq1 == SetSq(SetSq(p.squares, move.start_row, move.start_col, NoPiece),
                     move.end_row, move.end_col, piece_moved)
        sq2 == IF move.is_pawn_promotion
               THEN SetSq(sq1, move.end_row, move.end_col,
                          [Piece(move.end_row, move.end_col) EXCEPT
                              !.row = move.end_row, !.col = move.end_col])
               ELSE sq1
        sq3 == IF move.is_en_passant_move
               THEN SetSq(sq2, move.start_row, move.end_col, NoPiece)
               ELSE sq2
        rook_start_col == IF move.end_col - move.start_col = 2 THEN 7 ELSE 0
        rook_end_col   == IF move.end_col - move.start_col = 2 THEN 5 ELSE 3
        sq4 == IF move.is_castle_move
               THEN SetSq(SetSq(sq3, move.end_row, rook_start_col, NoPiece),
                          move.end_row, rook_end_col,
                          [sq3[move.end_row][rook_start_col] EXCEPT
                              !.col = rook_end_col, !.moved = TRUE])
               ELSE sq3
    IN [squares |-> sq4,
        move_log |-> Append(p.move_log,
                        [piece_moved |-> IF move.is_pawn_promotion
                                         THEN piece_moved ELSE NoPiece,
                         piece_captured |-> piece_captured])]

\* undo_move of the move that is last in move_log, on the fields of the
\* pieces: row and col of the piece moved are set back, and the col of
\* the castled rook; no moved field is assigned
undo_pieces(p, move) ==
    LET taken == p.move_log[Len(p.move_log)]
        piece_moved ==
            [(IF move.is_pawn_promotion THEN taken.piece_moved
              ELSE p.squares[move.end_row][move.end_col]) EXCEPT
                !.row = move.start_row, !.col = move.start_col]
        sq1 == SetSq(SetSq(p.squares, move.start_row, move.start_col,
                           piece_moved),
                     move.end_row, move.end_col, taken.piece_captured)
        sq2 == IF move.is_en_passant_move
               THEN SetSq(SetSq(sq1, move.end_row, move.end_col, NoPiece),
                          move.start_row, move.end_col, taken.piece_captured)
               ELSE sq1
        rook_from == IF move.end_col - move.start_col = 2 THEN 5 ELSE 3
        rook_to   == IF move.end_col - move.start_col = 2 THEN 7 ELSE 0
        sq3 == IF move.is_castle_move
               THEN SetSq(SetSq(sq2, move.end_row, rook_from, NoPiece),
                          move.end_row, rook_to,
                          [sq2[move.end_row][rook_from] EXCEPT
                              !.col = rook_to])
               ELSE sq2
    IN [squares |-> sq3, move_log |-> pop(p.move_log)]

\* undo_move() on the board b; with an empty move_log nothing changes
undo_move_pieces(p, b) ==
    IF b.move_log = <<>> THEN p
    ELSE undo_pieces(p, b.move_log[Len(b.move_log)])

\* the body of the loop of get_valid_moves: the move is made and undone
FilterPiecesStep(p, move) == undo_pieces(make_move_pieces(p, move), move)

\* the iterations for the entries hi down to lo of the list (counted from
\* 1): those of the upper half of the range, then those of the lower half.
\* FilterPiecesLower reads the outcome of the upper half before the lower
\* half is begun, which keeps the evaluation shallow
RECURSIVE FilterPiecesRange(_, _, _, _)
RECURSIVE FilterPiecesLower(_, _, _, _)
FilterPiecesRange(p, moves, hi, lo) ==
    IF hi < lo THEN p
    ELSE IF hi = lo THEN FilterPiecesStep(p, moves[hi])
    ELSE FilterPiecesLower(
             FilterPiecesRange(p, moves, hi, (hi + lo) \div 2 + 1),
             moves, (hi + lo) \div 2, lo)

FilterPiecesLower(upper, moves, hi, lo) ==
    IF Len(upper.move_log) >= 0 THEN FilterPiecesRange(upper, moves, hi, lo)
    ELSE upper

\* get_valid_moves() on the board b, on the fields of the pieces: every
\* move of the list is made and undone, the last one first; the castle
\* moves are appended after the loop and are not made
FilterPieces(p, moves) == FilterPiecesRange(p, moves, Len(moves), 1)

get_valid_moves_pieces(p, b) == FilterPieces(p, _get_all_possible_moves(b))

\* load_from_fen puts new pieces on the squares it fills and empties
\* move_log
load_from_fen_pieces(b) == NewPieces(b.squares)

\* reset_board called on a board: new pieces on the four home rows, the
\* other rows keep what they hold; move_log is emptied
reset_board_pieces(p) ==
    [squares |-> [row \in 0..7 |->
                     IF row \in {0, 1, 6, 7}
                     THEN NewPieces(StartSquares).squares[row]
                     ELSE p.squares[row]],
     move_log |-> <<>>]

-----------------------------------------------------------------------------
(* The generators of pieces.py: a piece draws its moves from its own row,  *)
(* col and colour and from the squares of the board.  piece is the kind    *)
(* and colour of the object, own its fields.                               *)

\* the body of Knight.get_valid_moves and King.get_valid_moves: one move
\* for each offset that ends on the board, on an empty square or on a
\* piece of the other colour
Steps(b, piece, own, offsets) ==
    LET Open(o) ==
            /\ OnBoard(own.row + o[1], own.col + o[2])
            /\ LET end_piece == b.squares[own.row + o[1]][own.col + o[2]]
               IN end_piece = None \/ is_white(end_piece) # is_white(piece)
        sel == SelectSeq(offsets, Open)
    IN [k \in 1..Len(sel) |->
          Move(<<own.row, own.col>>,
               <<own.row + sel[k][1], own.col + sel[k][2]>>, b, FALSE, FALSE)]

\* the inner loop of Bishop, Rook and Queen.get_valid_moves, from i on
RECURSIVE Walk(_, _, _, _, _, _)
Walk(b, piece, own, dr, dc, i) ==
    LET end_row == own.row + i * dr
        end_col == own.col + i * dc
    IN IF i > 7 \/ ~OnBoard(end_row, end_col) THEN <<>>
       ELSE LET end_piece == b.squares[end_row][end_col]
                m == Move(<<own.row, own.col>>, <<end_row, end_col>>, b,
                          FALSE, FALSE)
            IN IF end_piece = None
               THEN <<m>> \o Walk(b, piece, own, dr, dc, i + 1)
               ELSE IF is_white(end_piece) # is_white(piece) THEN <<m>>
               ELSE <<>>

\* the outer loop, over the directions from the k-th on
RECURSIVE Walks(_, _, _, _, _)
Walks(b, piece, own, directions, k) ==
    IF k > Len(directions) THEN <<>>
    ELSE Walk(b, piece, own, directions[k][1], directions[k][2], 1)
         \o Walks(b, piece, own, directions, k + 1)

Pawn_get_valid_moves(b, piece, own) ==
    LET direction == IF is_white(piece) THEN -1 ELSE 1
        from == <<own.row, own.col>>
        forward ==
            IF 0 <= own.row + direction /\ own.row + direction < 8
               /\ b.squares[own.row + direction][own.col] = None
            THEN <<Move(from, <<own.row + direction, own.col>>, b,
                        FALSE, FALSE)>>
                 \o (IF ((is_white(piece) /\ own.row = 6)
                         \/ (~is_white(piece) /\ own.row = 1))
                        /\ b.squares[own.row + 2 * direction][own.col] = None
                     THEN <<Move(from, <<own.row + 2 * direction, own.col>>,
                                 b, FALSE, FALSE)>>
                     ELSE <<>>)
            ELSE <<>>
        Capture(to_col) ==
            IF 0 <= own.row + direction /\ own.row + direction < 8
               /\ 0 <= to_col /\ to_col < 8
            THEN IF b.squares[own.row + direction][to_col] # None
                    /\ is_white(b.squares[own.row + direction][to_col])
                           # is_white(piece)
                 THEN <<Move(from, <<own.row + direction, to_col>>, b,
                             FALSE, FALSE)>>
                 ELSE IF <<own.row + direction, to_col>>
                             = b.en_passant_possible
                 THEN <<Move(from, <<own.row + direction, to_col>>, b,
                             TRUE, FALSE)>>
                 ELSE <<>>
            ELSE <<>>
    IN forward \o Capture(own.col - 1) \o Capture(own.col + 1)

Knight_get_valid_moves(b, piece, own) == Steps(b, piece, own, KnightOffsets)

Bishop_get_valid_moves(b, piece, own) ==
    Walks(b, piece, own, DiagonalDirections, 1)

Rook_get_valid_moves(b, piece, own) ==
    Walks(b, piece, own, StraightDirections, 1)

Queen_get_valid_moves(b, piece, own) ==
    Walks(b, piece, own, KingDirections, 1)

King_get_valid_moves(b, piece, own) == Steps(b, piece, own, KingDirections)

\* p.get_valid_moves(board) for the piece p of class piece with fields own
Piece_get_valid_moves(b, piece, own) ==
    CASE piece_type(piece) = "P" -> Pawn_get_valid_moves(b, piece, own)
      [] piece_type(piece) = "N" -> Knight_get_valid_moves(b, piece, own)
      [] piece_type(piece) = "B" -> Bishop_get_valid_moves(b, piece, own)
      [] piece_type(piece) = "R" -> Rook_get_valid_moves(b, piece, own)
      [] piece_type(piece) = "Q" -> Queen_get_valid_moves(b, piece, own)
      [] piece_type(piece) = "K" -> King_get_valid_moves(b, piece, own)

-----------------------------------------------------------------------------
(* The game: moves are chosen among those get_valid_moves returns.  Past   *)
(* the first FreePly moves the choice follows the lines of Book, each a    *)
(* game from the starting position.                                        *)

\* a move from (file, rank) to (file, rank), files a..h counted 1..8, as
\* <<start_row, start_col, end_row, end_col>> (Board.algebraic_to_coords)
mv(f1, r1, f2, r2) == <<8 - r1, f1 - 1, 8 - r2, f2 - 1>>

Book ==
    { \* 1.e4 e5 2.Nf3 Nc6 3.Bc4 Bc5 4.O-O Nf6 5.Re1 O-O 6.Kh1 Kh8
      << mv(5,2,5,4), mv(5,7,5,5), mv(7,1,6,3), mv(2,8,3,6), mv(6,1,3,4),
         mv(6,8,3,5), mv(5,1,7,1), mv(7,8,6,6), mv(6,1,5,1), mv(5,8,7,8),
         mv(7,1,8,1), mv(7,8,8,8) >>,
      \* 1.d4 d5 2.Nc3 Nc6 3.Bf4 Bf5 4.Qd2 Qd7 5.O-O-O O-O-O 6.Kb1 Kb8
      << mv(4,2,4,4), mv(4,7,4,5), mv(2,1,3,3), mv(2,8,3,6), mv(3,1,6,4),
         mv(3,8,6,5), mv(4,1,4,2), mv(4,8,4,7), mv(5,1,3,1), mv(5,8,3,8),
         mv(3,1,2,1), mv(3,8,2,8) >>,
      \* 1.e4 a6 2.e5 d5 3.exd6 (en passant) cxd6
      << mv(5,2,5,4), mv(1,7,1,6), mv(5,4,5,5), mv(4,7,4,5), mv(5,5,4,6),
         mv(3,7,4,6) >>,
      \* 1.e4 a6 2.e5 d5 3.Nf3 f5 4.exf6 (en passant) gxf6
      << mv(5,2,5,4), mv(1,7,1,6), mv(5,4,5,5), mv(4,7,4,5), mv(7,1,6,3),
         mv(6,7,6,5), mv(5,5,6,6), mv(7,7,6,6) >>,
      \* 1.a3 e5 2.a4 e4 3.d4 exd3 (en passant) 4.cxd3
      << mv(1,2,1,3), mv(5,7,5,5), mv(1,3,1,4), mv(5,5,5,4), mv(4,2,4,4),
         mv(5,4,4,3), mv(3,2,4,3) >>,
      \* 1.e4 a6 2.e5 a5 3.c4 a4 4.c5 d5 5.cxd6 (en passant) exd6 6.exd6
      << mv(5,2,5,4), mv(1,7,1,6), mv(5,4,5,5), mv(1,6,1,5), mv(3,2,3,4),
         mv(1,5,1,4), mv(3,4,3,5), mv(4,7,4,5), mv(3,5,4,6), mv(5,7,4,6),
         mv(5,5,4,6) >>,
      \* 1.h4 g5 2.hxg5 h6 3.gxh6 Bg7 4.hxg7 Nf6 5.gxh8=Q+ Ng8 6.Qxg8#
      << mv(8,2,8,4), mv(7,7,7,5), mv(8,4,7,5), mv(8,7,8,6), mv(7,5,8,6),
         mv(6,8,7,7), mv(8,6,7,7), mv(7,8,6,6), mv(7,7,8,8), mv(6,6,7,8),
         mv(8,8,7,8) >>,
      \* 1.a4 b5 2.axb5 a6 3.c4 axb5 4.Rxa8 Bb7 5.Rxb8 Qxb8
      << mv(1,2,1,4), mv(2,7,2,5), mv(1,4,2,5), mv(1,7,1,6), mv(3,2,3,4),
         mv(1,6,2,5), mv(1,1,1,8), mv(3,8,2,7), mv(1,8,2,8), mv(4,8,2,8) >>,
      \* 1.h4 g5 2.hxg5 h5 3.Nf3 h4 4.e3 h3 5.Be2 h2 6.O-O hxg1=Q
      << mv(8,2,8,4), mv(7,7,7,5), mv(8,4,7,5), mv(8,7,8,5), mv(7,1,6,3),
         mv(8,5,8,4), mv(5,2,5,3), mv(8,4,8,3), mv(6,1,5,2), mv(8,3,8,2),
         mv(5,1,7,1), mv(8,2,7,1) >>,
      \* 1.f3 e5 2.g4 Qh4#
      << mv(6,2,6,3), mv(5,7,5,5), mv(7,2,7,4), mv(4,8,8,4) >>,
      \* 1.e4 e5 2.Qh5 Nc6 3.Bc4 Nf6 4.Qxf7#
      << mv(5,2,5,4), mv(5,7,5,5), mv(4,1,8,5), mv(2,8,3,6), mv(6,1,3,4),
         mv(7,8,6,6), mv(8,5,6,7) >>,
      \* 1.e4 e5 2.d4 exd4 3.e5 Qe7 4.a3 d5 (exd6 would open the e-file
      \* on the white king) 5.Nf3
      << mv(5,2,5,4), mv(5,7,5,5), mv(4,2,4,4), mv(5,5,4,4), mv(5,4,5,5),
         mv(4,8,5,7), mv(1,2,1,3), mv(4,7,4,5), mv(7,1,6,3) >>,
      \* 1.h4 a5 2.Rh3 a4 3.Nf3 a3 4.e3 axb2 5.Be2 bxc1=Q 6.Qxc1
      << mv(8,2,8,4), mv(1,7,1,5), mv(8,1,8,3), mv(1,5,1,4), mv(7,1,6,3),
         mv(1,4,1,3), mv(5,2,5,3), mv(1,3,2,2), mv(6,1,5,2), mv(2,2,3,1),
         mv(4,1,3,1) >>,
      \* 1.e3 d5 2.Be2 d4 3.Bf1 d3 4.Ne2 dxe2 5.a3 (the pawn on e2 can take
      \* on f1 and promote, the squares of 3.Bf1)
      << mv(5,2,5,3), mv(4,7,4,5), mv(6,1,5,2), mv(4,5,4,4), mv(5,2,6,1),
         mv(4,4,4,3), mv(7,1,5,2), mv(4,3,5,2), mv(1,2,1,3) >>,
      \* from the position with kings on e1 and e8, rooks on h1 and h8
      \* and a black pawn on h2: 1.O-O hxg1=Q 2.Rf2 Qh1
      << mv(5,1,7,1), mv(8,2,7,1), mv(6,1,6,2), mv(7,1,8,1) >>,
      \* from the same position: 1.O-O hxg1=Q 2.Rf2 Rg8
      << mv(5,1,7,1), mv(8,2,7,1), mv(6,1,6,2), mv(8,8,7,8) >> }

Coords(move) == <<move.start_row, move.start_col, move.end_row, move.end_col>>

\* move continues a line of Book that the moves played so far follow
InBook(log, move) ==
    \E line \in Book :
        /\ Len(line) > Len(log)
        /\ \A i \in 1..Len(log) : Coords(log[i]) = line[i]
        /\ Coords(move) = line[Len(log) + 1]

-----------------------------------------------------------------------------
(* The state machine *)

\* the Board object
self ==
    [squares |-> squares,
     white_to_move |-> white_to_move,
     move_log |-> move_log,
     white_king_location |-> white_king_location,
     black_king_location |-> black_king_location,
     white_king_side_castle |-> white_king_side_castle,
     white_queen_side_castle |-> white_queen_side_castle,
     black_king_side_castle |-> black_king_side_castle,
     black_queen_side_castle |-> black_queen_side_castle,
     en_passant_possible |-> en_passant_possible,
     checkmate |-> checkmate,
     stalemate |-> stalemate]

\* p with every moved field as a new piece has it
Unmoved(p) ==
    [squares |-> [row \in 0..7 |-> [col \in 0..7 |->
                     [p.squares[row][col] EXCEPT !.moved = FALSE]]],
     move_log |-> [k \in 1..Len(p.move_log) |->
                     [piece_moved |->
                          [p.move_log[k].piece_moved EXCEPT !.moved = FALSE],
                      piece_captured |->
                          [p.move_log[k].piece_captured EXCEPT
                              !.moved = FALSE]]]]

\* the pieces of the board become p.  No method of the Board reads the
\* moved field of a piece, and a game leaves it set on different pieces
\* for every order in which its positions were visited: the field is
\* followed where follow_moved holds, and is left out elsewhere
PiecesBecome(p) ==
    /\ pieces' = IF follow_moved THEN p ELSE Unmoved(p)
    /\ follow_moved' = follow_moved

Becomes(b) ==
    /\ squares' = b.squares
    /\ white_to_move' = b.white_to_move
    /\ move_log' = b.move_log
    /\ white_king_location' = b.white_king_location
    /\ black_king_location' = b.black_king_location
    /\ white_king_side_castle' = b.white_king_side_castle
    /\ white_queen_side_castle' = b.white_queen_side_castle
    /\ black_king_side_castle' = b.black_king_side_castle
    /\ black_queen_side_castle' = b.black_queen_side_castle
    /\ en_passant_possible' = b.en_passant_possible
    /\ checkmate' = b.checkmate
    /\ stalemate' = b.stalemate

Init ==
    /\ squares = reset_board.squares
    /\ white_to_move = reset_board.white_to_move
    /\ move_log = reset_board.move_log
    /\ white_king_location = reset_board.white_king_location
    /\ black_king_location = reset_board.black_king_location
    /\ white_king_side_castle = reset_board.white_king_side_castle
    /\ white_queen_side_castle = reset_board.white_queen_side_castle
    /\ black_king_side_castle = reset_board.black_king_side_castle
    /\ black_queen_side_castle = reset_board.black_queen_side_castle
    /\ en_passant_possible = reset_board.en_passant_possible
    /\ checkmate = reset_board.checkmate
    /\ stalemate = reset_board.stalemate
    /\ pieces = NewPieces(reset_board.squares)
    /\ follow_moved = FALSE

\* a caller asks for the legal moves (the terminal flags are set)
GetValidMoves ==
    /\ Becomes(get_valid_moves(self).board)
    /\ PiecesBecome(get_valid_moves_pieces(pieces, self))

\* a caller plays one of the moves of the list get_valid_moves returned
PlayOneOf(valid) ==
    \E i \in 1..Len(valid.moves) :
        /\ Len(move_log) < FreePly \/ InBook(move_log, valid.moves[i])
        /\ Becomes(make_move(valid.board, valid.moves[i]))
        /\ PiecesBecome(make_move_pieces(
                            get_valid_moves_pieces(pieces, self),
                            valid.moves[i]))

MakeMove ==
    /\ Len(move_log) < (IF follow_moved THEN MovedPly ELSE MaxPly)
    /\ PlayOneOf(get_valid_moves(self))

\* the undo button
UndoMove ==
    /\ Becomes(undo_move(self))
    /\ PiecesBecome(undo_move_pieces(pieces, self))

Next == GetValidMoves \/ MakeMove \/ UndoMove

Spec == Init /\ [][Next]_vars

\* the same game with the moved fields of the pieces followed
InitMoved ==
    /\ squares = reset_board.squares
    /\ white_to_move = reset_board.white_to_move
    /\ move_log = reset_board.move_log
    /\ white_king_location = reset_board.white_king_location
    /\ black_king_location = reset_board.black_king_location
    /\ white_king_side_castle = reset_board.white_king_side_castle
    /\ white_queen_side_castle = reset_board.white_queen_side_castle
    /\ black_king_side_castle = reset_board.black_king_side_castle
    /\ black_queen_side_castle = reset_board.black_queen_side_castle
    /\ en_passant_possible = reset_board.en_passant_possible
    /\ checkmate = reset_board.checkmate
    /\ stalemate = reset_board.stalemate
    /\ pieces = NewPieces(reset_board.squares)
    /\ follow_moved = TRUE

SpecMoved == InitMoved /\ [][Next]_vars

-----------------------------------------------------------------------------
(* Position strings.  A string is the sequence of its characters; the      *)
(* string operations are those load_from_fen applies to it.                *)

Digits == <<"0", "1", "2", "3", "4", "5", "6", "7", "8", "9">>

Lowercase ==
    <<"a", "b", "c", "d", "e", "f", "g", "h", "i", "j", "k", "l", "m",
      "n", "o", "p", "q", "r", "s", "t", "u", "v", "w", "x", "y", "z">>

Uppercase ==
    <<"A", "B", "C", "D", "E", "F", "G", "H", "I", "J", "K", "L", "M",
      "N", "O", "P", "Q", "R", "S", "T", "U", "V", "W", "X", "Y", "Z">>

IndexIn(alphabet, char) == CHOOSE n \in 1..Len(alphabet) : alphabet[n] = char

Among(alphabet, char) == \E n \in 1..Len(alphabet) : alphabet[n] = char

isdigit(char) == Among(Digits, char)

int(char) == IndexIn(Digits, char) - 1

isupper(char) == Among(Uppercase, char)

upper(char) ==
    IF Among(Lowercase, char) THEN Uppercase[IndexIn(Lowercase, char)]
    ELSE char

lower(char) ==
    IF Among(Uppercase, char) THEN Lowercase[IndexIn(Uppercase, char)]
    ELSE char

\* str.split(sep): the pieces between the occurrences of sep
split(str, sep) ==
    LET at == SelectSeq([i \in 1..Len(str) |-> i], LAMBDA i : str[i] = sep)
        from(k) == IF k = 1 THEN 1 ELSE at[k - 1] + 1
        to(k) == IF k = Len(at) + 1 THEN Len(str) ELSE at[k] - 1
    IN  [k \in 1..(Len(at) + 1) |-> SubSeq(str, from(k), to(k))]

\* sep in str
contains(str, char) == \E i \in 1..Len(str) : str[i] = char

algebraic_to_coords(algebraic) ==
    <<8 - int(algebraic[2]), IndexIn(Lowercase, lower(algebraic[1])) - 1>>

\* the piece a character of the placement field stands for
FenPiece(char) ==
    CASE upper(char) = "P" -> Pawn(isupper(char))
      [] upper(char) = "N" -> Knight(isupper(char))
      [] upper(char) = "B" -> Bishop(isupper(char))
      [] upper(char) = "R" -> Rook(isupper(char))
      [] upper(char) = "Q" -> Queen(isupper(char))
      [] upper(char) = "K" -> King(isupper(char))
      [] OTHER -> None

\* col_idx when the j-th character of a row is read
RECURSIVE col_idx(_, _)
col_idx(row_str, j) ==
    IF j = 1 THEN 0
    ELSE col_idx(row_str, j - 1)
         + (IF isdigit(row_str[j - 1]) THEN int(row_str[j - 1]) ELSE 1)

\* the characters of a row that put a piece on column col
PlacedAt(row_str, col) ==
    {j \in 1..Len(row_str) :
        /\ ~isdigit(row_str[j])
        /\ FenPiece(row_str[j]) # None
        /\ col_idx(row_str, j) = col}

\* the parsed placement field: the board is cleared, then filled row by row
FenSquares(rows) ==
    [row \in 0..7 |-> [col \in 0..7 |->
        IF row < Len(rows) /\ PlacedAt(rows[row + 1], col) # {}
        THEN FenPiece(rows[row + 1][CHOOSE j \in PlacedAt(rows[row + 1], col) :
                                       \A k \in PlacedAt(rows[row + 1], col) : k <= j])
        ELSE None]]

\* the king location load_from_fen leaves: that of the last king read, the
\* previous one if the string has no king of that colour
FenKing(sq, white, previous) ==
    LET found == {at \in (0..7) \X (0..7) : sq[at[1]][at[2]] = King(white)}
    IN  IF found = {} THEN previous
        ELSE CHOOSE at \in found :
                 \A other \in found : 8 * other[1] + other[2] <= 8 * at[1] + at[2]

LoadParts(b, parts, sq) ==
    [squares |-> sq,
     white_to_move |-> parts[2] = <<"w">>,
     move_log |-> <<>>,
     white_king_location |-> FenKing(sq, TRUE, b.white_king_location),
     black_king_location |-> FenKing(sq, FALSE, b.black_king_location),
     white_king_side_castle |-> contains(parts[3], "K"),
     white_queen_side_castle |-> contains(parts[3], "Q"),
     black_king_side_castle |-> contains(parts[3], "k"),
     black_queen_side_castle |-> contains(parts[3], "q"),
     en_passant_possible |-> IF parts[4] # <<"-">>
                             THEN algebraic_to_coords(parts[4]) ELSE <<>>,
     checkmate |-> FALSE,
     stalemate |-> FALSE]

load_from_fen(b, fen) ==
    LoadParts(b, split(fen, " "), FenSquares(split(split(fen, " ")[1], "/")))

\* str(n) for a number of one digit
str(n) == Digits[n + 1]

coords_to_algebraic(row, col) == <<Lowercase[col + 1], str(8 - row)>>

\* empty_count when the square (row, col) has been read: the empty squares
\* of the row that end there without a piece between
RECURSIVE empty_count(_, _, _)
empty_count(b, row, col) ==
    IF col < 0 \/ b.squares[row][col] # None THEN 0
    ELSE empty_count(b, row, col - 1) + 1

\* what get_fen appends on reading the square (row, col): the count of the
\* empty squares before a piece and the symbol of the piece, the count at
\* the end of the row
FenSquare(b, row, col) ==
    IF b.squares[row][col] # None
    THEN (IF empty_count(b, row, col - 1) > 0
          THEN <<str(empty_count(b, row, col - 1))>> ELSE <<>>)
         \o <<b.squares[row][col]>>
    ELSE IF col = 7 THEN <<str(empty_count(b, row, col))>> ELSE <<>>

FenRow(b, row) ==
    FenSquare(b, row, 0) \o FenSquare(b, row, 1) \o FenSquare(b, row, 2)
    \o FenSquare(b, row, 3) \o FenSquare(b, row, 4) \o FenSquare(b, row, 5)
    \o FenSquare(b, row, 6) \o FenSquare(b, row, 7)
    \o (IF row < 7 THEN <<"/">> ELSE <<>>)

FenCastling(b) ==
    (IF b.white_king_side_castle THEN <<"K">> ELSE <<>>)
    \o (IF b.white_queen_side_castle THEN <<"Q">> ELSE <<>>)
    \o (IF b.black_king_side_castle THEN <<"k">> ELSE <<>>)
    \o (IF b.black_queen_side_castle THEN <<"q">> ELSE <<>>)

get_fen(b) ==
    FenRow(b, 0) \o FenRow(b, 1) \o FenRow(b, 2) \o FenRow(b, 3)
    \o FenRow(b, 4) \o FenRow(b, 5) \o FenRow(b, 6) \o FenRow(b, 7)
    \o (IF b.white_to_move THEN <<" ", "w", " ">> ELSE <<" ", "b", " ">>)
    \o (IF FenCastling(b) # <<>> THEN FenCastling(b) ELSE <<"-">>)
    \o (IF b.en_passant_possible # <<>>
        THEN <<" ">> \o coords_to_algebraic(b.en_passant_possible[1],
                                            b.en_passant_possible[2])
        ELSE <<" ", "-">>)
    \o <<" ", "0">>
    \o <<" ", "1">>

-----------------------------------------------------------------------------
(* Positions set up from a string instead of being played from the start   *)

\* 7k/5Q2/6K1/8/8/8/8/8 b - - 0 1
\* the canonical stalemate: black to move, king h8, queen f7, king g6
Fen1 ==
    <<"7", "k", "/", "5", "Q", "2", "/", "6", "K", "1", "/", "8", "/", "8",
      "/", "8", "/", "8", "/", "8", " ", "b", " ", "-", " ", "-", " ", "0",
      " ", "1">>

\* R5k1/5ppp/8/8/8/8/8/6K1 b - - 0 1
\* a back-rank mate
Fen2 ==
    <<"R", "5", "k", "1", "/", "5", "p", "p", "p", "/", "8", "/", "8", "/",
      "8", "/", "8", "/", "8", "/", "6", "K", "1", " ", "b", " ", "-", " ",
      "-", " ", "0", " ", "1">>

\* 8/8/8/3k4/8/3K4/8/8 w - - 0 1
\* king against king
Fen3 ==
    <<"8", "/", "8", "/", "8", "/", "3", "k", "4", "/", "8", "/", "3", "K",
      "4", "/", "8", "/", "8", " ", "w", " ", "-", " ", "-", " ", "0", " ",
      "1">>

\* 8/8/8/3k4/8/3KB3/8/8 w - - 0 1
\* king and bishop against king
Fen4 ==
    <<"8", "/", "8", "/", "8", "/", "3", "k", "4", "/", "8", "/", "3", "K",
      "B", "3", "/", "8", "/", "8", " ", "w", " ", "-", " ", "-", " ", "0",
      " ", "1">>

\* 8/8/3k4/8/8/3KN3/8/8 w - - 0 1
\* king and knight against king
Fen5 ==
    <<"8", "/", "8", "/", "3", "k", "4", "/", "8", "/", "8", "/", "3", "K",
      "N", "3", "/", "8", "/", "8", " ", "w", " ", "-", " ", "-", " ", "0",
      " ", "1">>

\* 8/8/4b3/3k4/8/3K4/8/8 b - - 0 1
\* king against king and bishop
Fen6 ==
    <<"8", "/", "8", "/", "4", "b", "3", "/", "3", "k", "4", "/", "8", "/",
      "3", "K", "4", "/", "8", "/", "8", " ", "b", " ", "-", " ", "-", " ",
      "0", " ", "1">>

\* 8/8/4n3/3k4/8/3K4/8/8 b - - 0 1
\* king against king and knight
Fen7 ==
    <<"8", "/", "8", "/", "4", "n", "3", "/", "3", "k", "4", "/", "8", "/",
      "3", "K", "4", "/", "8", "/", "8", " ", "b", " ", "-", " ", "-", " ",
      "0", " ", "1">>

\* 8/8/3b4/3k4/8/3KB3/8/8 w - - 0 1
\* bishops on squares of one colour
Fen8 ==
    <<"8", "/", "8", "/", "3", "b", "4", "/", "3", "k", "4", "/", "8", "/",
      "3", "K", "B", "3", "/", "8", "/", "8", " ", "w", " ", "-", " ", "-",
      " ", "0", " ", "1">>

\* 8/8/4b3/3k4/8/3KB3/8/8 w - - 0 1
\* bishops on squares of different colours
Fen9 ==
    <<"8", "/", "8", "/", "4", "b", "3", "/", "3", "k", "4", "/", "8", "/",
      "3", "K", "B", "3", "/", "8", "/", "8", " ", "w", " ", "-", " ", "-",
      " ", "0", " ", "1">>

\* 8/8/4n3/3k4/8/3KB3/8/8 w - - 0 1
\* bishop against knight
Fen10 ==
    <<"8", "/", "8", "/", "4", "n", "3", "/", "3", "k", "4", "/", "8", "/",
      "3", "K", "B", "3", "/", "8", "/", "8", " ", "w", " ", "-", " ", "-",
      " ", "0", " ", "1">>

\* 8/8/3k4/8/8/2NKN3/8/8 w - - 0 1
\* two knights
Fen11 ==
    <<"8", "/", "8", "/", "3", "k", "4", "/", "8", "/", "8", "/", "2", "N",
      "K", "N", "3", "/", "8", "/", "8", " ", "w", " ", "-", " ", "-", " ",
      "0", " ", "1">>

\* 8/8/8/8/8/5k2/8/4BKB1 w - - 0 1
\* two bishops of one side
Fen12 ==
    <<"8", "/", "8", "/", "8", "/", "8", "/", "8", "/", "5", "k", "2", "/",
      "8", "/", "4", "B", "K", "B", "1", " ", "w", " ", "-", " ", "-", " ",
      "0", " ", "1">>

\* 8/8/8/3k4/8/3KP3/8/8 w - - 0 1
\* a pawn
Fen13 ==
    <<"8", "/", "8", "/", "8", "/", "3", "k", "4", "/", "8", "/", "3", "K",
      "P", "3", "/", "8", "/", "8", " ", "w", " ", "-", " ", "-", " ", "0",
      " ", "1">>

\* 8/2k5/8/8/4r3/3K4/8/8 w - - 0 1
\* a rook, which the king can take
Fen14 ==
    <<"8", "/", "2", "k", "5", "/", "8", "/", "8", "/", "4", "r", "3", "/",
      "3", "K", "4", "/", "8", "/", "8", " ", "w", " ", "-", " ", "-", " ",
      "0", " ", "1">>

\* 4k2r/8/8/8/4Pp2/8/8/R3K3 b Qk e3 0 1
\* castling rights and an en passant square
Fen15 ==
    <<"4", "k", "2", "r", "/", "8", "/", "8", "/", "8", "/", "4", "P", "p",
      "2", "/", "8", "/", "8", "/", "R", "3", "K", "3", " ", "b", " ", "Q",
      "k", " ", "e", "3", " ", "0", " ", "1">>

\* 8/8/8/KPp4r/8/8/8/7k w - c6 0 1
\* the en passant capture bxc6 would open the fifth rank to the rook
Fen16 ==
    <<"8", "/", "8", "/", "8", "/", "K", "P", "p", "4", "r", "/", "8", "/",
      "8", "/", "8", "/", "7", "k", " ", "w", " ", "-", " ", "c", "6", " ",
      "0", " ", "1">>

\* 4k2r/8/8/8/8/8/7p/4K2R w K - 0 1
\* the black pawn on h2 attacks g1, where the king arrives by castling
Fen17 ==
    <<"4", "k", "2", "r", "/", "8", "/", "8", "/", "8", "/", "8", "/", "8",
      "/", "7", "p", "/", "4", "K", "2", "R", " ", "w", " ", "K", " ", "-",
      " ", "0", " ", "1">>

Fens ==
    {Fen1, Fen2, Fen3, Fen4, Fen5, Fen6, Fen7, Fen8,
     Fen9, Fen10, Fen11, Fen12, Fen13, Fen14, Fen15, Fen16,
     Fen17}

\* a caller makes a Board and sets it up from one of the strings
LoadFromFen ==
    /\ self = reset_board
    /\ \E fen \in Fens :
           /\ Becomes(load_from_fen(self, fen))
           /\ PiecesBecome(load_from_fen_pieces(load_from_fen(self, fen)))

\* a caller asks for the state of the game
GetGameState ==
    /\ Becomes(get_game_state(self).board)
    /\ PiecesBecome(get_valid_moves_pieces(pieces, self))

NextPositions == Next \/ LoadFromFen \/ GetGameState

SpecPositions == Init /\ [][NextPositions]_vars

-----------------------------------------------------------------------------
(* load_from_fen on a string that is not a position: where it fails and    *)
(* what it leaves                                                          *)

\* the j-th character of the row-th row puts a piece outside the grid
Overflows(rows, row, j) ==
    /\ ~isdigit(rows[row][j])
    /\ FenPiece(rows[row][j]) # None
    /\ (row > 8 \/ col_idx(rows[row], j) >= 8)

Overflowing(rows) ==
    {at \in (1..Len(rows)) \X (1..9) :
        at[2] <= Len(rows[at[1]]) /\ Overflows(rows, at[1], at[2])}

ReadBefore(at, stop) == at[1] < stop[1] \/ (at[1] = stop[1] /\ at[2] < stop[2])

\* the first character at which the assignment to the grid fails
FirstOverflow(rows) ==
    CHOOSE stop \in Overflowing(rows) :
        \A at \in Overflowing(rows) : at = stop \/ ReadBefore(stop, at)

\* the grid when the assignment fails: cleared, then filled up to there
FenSquaresBefore(rows, stop) ==
    [row \in 0..7 |-> [col \in 0..7 |->
        LET placed == {j \in PlacedAt(rows[row + 1], col) :
                          ReadBefore(<<row + 1, j>>, stop)}
        IN  IF row < Len(rows) /\ placed # {}
            THEN FenPiece(rows[row + 1][CHOOSE j \in placed : TRUE])
            ELSE None]]

\* the en passant field cannot be converted
BadSquare(field) ==
    /\ field # <<"-">>
    /\ (Len(field) < 2 \/ ~isdigit(field[2]))

\* the error load_from_fen ends with, "None" if it returns
FenError(parts, rows) ==
    IF Overflowing(rows) # {} THEN "IndexError"
    ELSE IF Len(parts) < 4 THEN "IndexError"
    ELSE IF BadSquare(parts[4])
         THEN (IF Len(parts[4]) < 2 THEN "IndexError" ELSE "ValueError")
    ELSE "None"

load_from_fen_error(fen) ==
    FenError(split(fen, " "), split(split(fen, " ")[1], "/"))

\* the board a failed load_from_fen leaves: what was assigned before the
\* error is kept, the rest is as it was
FenLeft(b, parts, sq) ==
    [b EXCEPT
        !.squares = sq,
        !.white_king_location = FenKing(sq, TRUE, b.white_king_location),
        !.black_king_location = FenKing(sq, FALSE, b.black_king_location),
        !.white_to_move = IF Len(parts) >= 2 THEN parts[2] = <<"w">> ELSE @,
        !.white_king_side_castle =
            IF Len(parts) >= 3 THEN contains(parts[3], "K") ELSE @,
        !.white_queen_side_castle =
            IF Len(parts) >= 3 THEN contains(parts[3], "Q") ELSE @,
        !.black_king_side_castle =
            IF Len(parts) >= 3 THEN contains(parts[3], "k") ELSE @,
        !.black_queen_side_castle =
            IF Len(parts) >= 3 THEN contains(parts[3], "q") ELSE @]

FenFailed(b, parts, rows) ==
    IF Overflowing(rows) # {}
    THEN FenLeft(b, <<parts[1]>>, FenSquaresBefore(rows, FirstOverflow(rows)))
    ELSE FenLeft(b, parts, FenSquares(rows))

\* a call of load_from_fen on b: the board it leaves, whether it returns or
\* ends with an error
load_from_fen_call(b, fen) ==
    IF load_from_fen_error(fen) = "None" THEN load_from_fen(b, fen)
    ELSE FenFailed(b, split(fen, " "), split(split(fen, " ")[1], "/"))

\* 8/8/8/3k4/8/8/8/8 w - - 0 1
\* no white king
Malformed1 ==
    <<"8", "/", "8", "/", "8", "/", "3", "k", "4", "/", "8", "/", "8", "/",
      "8", "/", "8", " ", "w", " ", "-", " ", "-", " ", "0", " ", "1">>

\* r3k2r/8/8/8/8/8/8/R3K2RR w KQkq - 0 1
\* a ninth square, holding a rook, in the last rank
Malformed2 ==
    <<"r", "3", "k", "2", "r", "/", "8", "/", "8", "/", "8", "/", "8", "/",
      "8", "/", "8", "/", "R", "3", "K", "2", "R", "R", " ", "w", " ", "K",
      "Q", "k", "q", " ", "-", " ", "0", " ", "1">>

\* 8/8/8/3k4/8/3K4/8/8 w -
\* three fields
Malformed3 ==
    <<"8", "/", "8", "/", "8", "/", "3", "k", "4", "/", "8", "/", "3", "K",
      "4", "/", "8", "/", "8", " ", "w", " ", "-">>

\* 8/8/8/3k4/8/3K5/8/8 w - - 0 1
\* nine squares in a rank, the ninth empty
Malformed4 ==
    <<"8", "/", "8", "/", "8", "/", "3", "k", "4", "/", "8", "/", "3", "K",
      "5", "/", "8", "/", "8", " ", "w", " ", "-", " ", "-", " ", "0", " ",
      "1">>

MalformedFens == {Malformed1, Malformed2, Malformed3, Malformed4}

\* a caller makes a Board and calls load_from_fen with one of the strings
LoadMalformed ==
    /\ self = reset_board
    /\ \E fen \in MalformedFens :
           /\ Becomes(load_from_fen_call(self, fen))
           /\ PiecesBecome(
                  load_from_fen_pieces(load_from_fen_call(self, fen)))

NextStrings == NextPositions \/ LoadMalformed

SpecStrings == Init /\ [][NextStrings]_vars

-----------------------------------------------------------------------------
(* A new game on the same Board object: the buttons of the menu call       *)
(* reset_board on the board of the game that was played.                   *)

\* Board.reset_board called on the board b: the pieces are put on the four
\* home rows and the fields of the game are reset
reset_board_on(b) ==
    [reset_board EXCEPT
        !.squares = [row \in 0..7 |->
                        IF row \in {0, 1, 6, 7} THEN StartSquares[row]
                        ELSE b.squares[row]]]

\* the game is over: the menu is entered and a game is started, once a
\* game has ended
GameOver == checkmate \/ stalemate

ResetBoard ==
    /\ GameOver
    /\ Becomes(reset_board_on(self))
    /\ PiecesBecome(reset_board_pieces(pieces))

NextNewGame == Next \/ ResetBoard

SpecNewGame == Init /\ [][NextNewGame]_vars

-----------------------------------------------------------------------------
(* Properties.  Each is stated for the board in the current state; those   *)
(* about the legal moves take the outcome of get_valid_moves (the list     *)
(* and the board as the call leaves it) as their argument.                 *)

RightsOf(b) ==
    <<b.white_king_side_castle, b.white_queen_side_castle,
      b.black_king_side_castle, b.black_queen_side_castle>>

\* the position: everything but the move log and the result flags
Position(b) ==
    <<b.squares, b.white_to_move, RightsOf(b), b.en_passant_possible,
      b.white_king_location, b.black_king_location>>

LastMove == move_log[Len(move_log)]

IsDoublePush(move) ==
    piece_type(move.piece_moved) = "P" /\ abs(move.start_row - move.end_row) = 2

SkippedSquare(move) == <<(move.start_row + move.end_row) \div 2, move.start_col>>

\* the squares holding a king of the colour
Kings(b, white) ==
    {sq \in (0..7) \X (0..7) : b.squares[sq[1]][sq[2]] = King(white)}

\* make_move(move) followed by undo_move(), on the board get_valid_moves left
MadeAndUndone(valid, i) == undo_move(make_move(valid.board, valid.moves[i]))

RestoredBy(valid) ==
    \A i \in 1..Len(valid.moves) :
        /\ Position(MadeAndUndone(valid, i)) = Position(self)
        /\ Len(MadeAndUndone(valid, i).move_log) = Len(move_log)

\* C1: in every reachable state, for every move of get_valid_moves,
\* make_move followed by undo_move leaves the squares, the side to move,
\* the four castling rights, en_passant_possible, both king locations and
\* the length of move_log as they were before
C1_MakeUndoRestores == RestoredBy(get_valid_moves(self))

CastleRestored(valid) ==
    \E i \in 1..Len(valid.moves) :
        /\ valid.moves[i].is_castle_move
        /\ make_move(valid.board, valid.moves[i]).squares[7][5] = Rook(TRUE)
        /\ Position(MadeAndUndone(valid, i)) = Position(self)

\* white can castle king side: the move puts the rook on f1, the undo
\* brings king and rook back
C1_Witness == CastleRestored(get_valid_moves(self))

KingSafeAfter(valid) ==
    \A i \in 1..Len(valid.moves) :
        ~_is_in_check(Flip(make_move(valid.board, valid.moves[i])))

\* C2: in every reachable state, after any move of get_valid_moves (the
\* castling moves included) the king of the side that moved is not
\* attacked
C2_ValidMovesKeepKingSafe == KingSafeAfter(get_valid_moves(self))

Unmutated(valid) ==
    /\ Position(valid.board) = Position(self)
    /\ valid.board.move_log = move_log

\* C3: get_valid_moves leaves the squares, the side to move, the castling
\* rights, en_passant_possible, the king locations and move_log as they
\* were on entry; only checkmate and stalemate may differ
C3_GetValidMovesLeavesPosition == Unmutated(get_valid_moves(self))

MateFound(valid) ==
    /\ ~checkmate
    /\ valid.board.checkmate
    /\ Len(_get_all_possible_moves(self)) > 0
    /\ Unmutated(valid)

\* a mated position before the call: every pseudo-legal move is tried and
\* undone, the call sets checkmate and leaves the position alone
C3_Witness == MateFound(get_valid_moves(self))

\* the conditions of castling for the castling move of the side to move
\* on board b, attacks taken geometrically (rules.is_square_attacked)
CastleJustified(b, move) ==
    LET white == b.white_to_move
        row == move.start_row
        kingside == move.end_col - move.start_col = 2
        flag == IF white
                THEN (IF kingside THEN b.white_king_side_castle
                      ELSE b.white_queen_side_castle)
                ELSE (IF kingside THEN b.black_king_side_castle
                      ELSE b.black_queen_side_castle)
        between == IF kingside THEN {5, 6} ELSE {1, 2, 3}
        path == IF kingside THEN {5, 6} ELSE {2, 3}
    IN /\ flag
       /\ \A col \in between : b.squares[row][col] = None
       /\ ~is_square_attacked(b, row, move.start_col, white)
       /\ \A col \in path : ~is_square_attacked(b, row, col, white)

CastlesJustified(valid) ==
    \A i \in 1..Len(valid.moves) :
        valid.moves[i].is_castle_move => CastleJustified(self, valid.moves[i])

\* C4: get_valid_moves holds a castling move only if that wing's right is
\* set, the squares between king and rook are empty, and the king's
\* square, the square it passes over and the square it lands on are not
\* attacked by any enemy piece, a pawn's diagonal attack on an empty
\* square included
C4_CastlingOnlyWhenAllowed == CastlesJustified(get_valid_moves(self))

NoKingCaptured(valid) ==
    \A i \in 1..Len(valid.moves) :
        piece_type(valid.moves[i].piece_captured) # "K"

\* C5: every reachable board holds exactly one white king and exactly one
\* black king, and no move of get_valid_moves captures a king
C5_OneKingEach ==
    /\ Cardinality(Kings(self, TRUE)) = 1
    /\ Cardinality(Kings(self, FALSE)) = 1
    /\ NoKingCaptured(get_valid_moves(self))

\* C6: white_king_location and black_king_location are the squares that
\* hold the white king and the black king
C6_KingLocationsTrue ==
    /\ Kings(self, TRUE) = {white_king_location}
    /\ Kings(self, FALSE) = {black_king_location}

\* C7: en_passant_possible is empty except in the state a two-square pawn
\* advance produced, where it is the square the pawn skipped; so a move
\* that is not a two-square pawn advance leaves it empty, whatever
\* it was before
C7_EnPassantOnlyAfterDoublePush ==
    en_passant_possible =
        IF move_log # <<>> /\ IsDoublePush(LastMove)
        THEN SkippedSquare(LastMove)
        ELSE <<>>

\* a two-square advance set the square and the move after it, not such an
\* advance, has emptied it again
C7_Witness ==
    /\ Len(move_log) >= 2
    /\ IsDoublePush(move_log[Len(move_log) - 1])
    /\ ~IsDoublePush(LastMove)
    /\ LastMove.en_passant_possible = SkippedSquare(move_log[Len(move_log) - 1])
    /\ en_passant_possible = <<>>

HasEnPassant(moves, from, to) ==
    \E i \in 1..Len(moves) :
        /\ moves[i].is_en_passant_move
        /\ <<moves[i].start_row, moves[i].start_col>> = from
        /\ <<moves[i].end_row, moves[i].end_col>> = to

\* the en passant capture by the pawn on from, as a move on the board
EnPassantCapture(from) == Move(from, SkippedSquare(LastMove), self, TRUE, FALSE)

EnPassantOffered(valid) ==
    IF move_log # <<>> /\ IsDoublePush(LastMove)
    THEN /\ \A side \in {-1, 1} :
              LET from == <<LastMove.end_row, LastMove.end_col + side>>
              IN (OnBoard(from[1], from[2])
                  /\ squares[from[1]][from[2]] = Pawn(white_to_move))
                 => \/ HasEnPassant(valid.moves, from, SkippedSquare(LastMove))
                    \/ _is_in_check(Flip(make_move(self, EnPassantCapture(from))))
         /\ \A i \in 1..Len(valid.moves) :
              valid.moves[i].is_en_passant_move
              => <<valid.moves[i].end_row, valid.moves[i].end_col>>
                 = SkippedSquare(LastMove)
    ELSE \A i \in 1..Len(valid.moves) : ~valid.moves[i].is_en_passant_move

\* C8: directly after a two-square pawn advance, every opposing pawn
\* beside the landing square has the en passant capture onto the skipped
\* square in get_valid_moves, unless the capture would leave its own king
\* attacked; get_valid_moves holds no other en passant capture, and none
\* at all when the last move was not a two-square advance
C8_EnPassantOfferedOnce == EnPassantOffered(get_valid_moves(self))

EnPassantTakenOver(valid) ==
    LET old == move_log[Len(move_log) - 2]
    IN /\ IsDoublePush(old)
       /\ ~IsDoublePush(move_log[Len(move_log) - 1])
       /\ IsDoublePush(LastMove)
       /\ squares[old.end_row][old.end_col] = Pawn(~white_to_move)
       /\ \E side \in {-1, 1} :
             /\ OnBoard(old.end_row, old.end_col + side)
             /\ squares[old.end_row][old.end_col + side] = Pawn(white_to_move)
             /\ ~HasEnPassant(valid.moves, <<old.end_row, old.end_col + side>>,
                              SkippedSquare(old))
       /\ \E i \in 1..Len(valid.moves) : valid.moves[i].is_en_passant_move

\* a pawn stands beside two pawns that advanced two squares, one a move
\* ago and one three moves ago: it may capture the first en passant and
\* no longer the second
C8_Witness == Len(move_log) >= 3 /\ EnPassantTakenOver(get_valid_moves(self))

\* the steps that append a move to move_log keep every right that is not
\* held cleared and store the rights held before on the move; the steps
\* that take the last move off move_log set the rights to those stored on
\* it; no step changes the moves below
RightsStep ==
    /\ Len(move_log') = Len(move_log) + 1
       => /\ \A k \in 1..4 : RightsOf(self)'[k] => RightsOf(self)[k]
          /\ move_log'[Len(move_log')].castle_rights
             = CastleRights(white_king_side_castle, white_queen_side_castle,
                            black_king_side_castle, black_queen_side_castle)
          /\ SubSeq(move_log', 1, Len(move_log)) = move_log
    /\ Len(move_log') = Len(move_log) - 1
       => /\ RightsOf(self)' = <<LastMove.castle_rights.wks,
                                 LastMove.castle_rights.wqs,
                                 LastMove.castle_rights.bks,
                                 LastMove.castle_rights.bqs>>
          /\ move_log' = SubSeq(move_log, 1, Len(move_log) - 1)
    /\ Len(move_log') = Len(move_log) => move_log' = move_log

\* C9: no make_move turns a castling right from False to True, and every
\* undo_move sets the four rights to the values they had just before the
\* move it undoes
C9_RightsNeverRegranted == [][RightsStep]_vars

\* the last move took white's king side right away and its undo gives it
\* back
C9_Witness ==
    /\ move_log # <<>>
    /\ LastMove.castle_rights.wks
    /\ ~white_king_side_castle
    /\ undo_move(self).white_king_side_castle

\* the castling rights after the move according to the rule: a king move
\* clears both rights of its colour, a rook leaving its own corner the
\* right of that wing, the capture of a rook on its own corner the right
\* of that rook's wing
ExpectedRights(b, move) ==
    LET pm == move.piece_moved
        pc == move.piece_captured
        KingMoves(white) == piece_type(pm) = "K" /\ is_white(pm) = white
        RookLeaves(row, col) ==
            /\ piece_type(pm) = "R"
            /\ is_white(pm) = (row = 7)
            /\ <<move.start_row, move.start_col>> = <<row, col>>
        RookTaken(row, col) ==
            /\ piece_type(pc) = "R"
            /\ is_white(pc) = (row = 7)
            /\ <<move.end_row, move.end_col>> = <<row, col>>
        Kept(row, col) ==
            ~KingMoves(row = 7) /\ ~RookLeaves(row, col) /\ ~RookTaken(row, col)
    IN <<b.white_king_side_castle /\ Kept(7, 7),
         b.white_queen_side_castle /\ Kept(7, 0),
         b.black_king_side_castle /\ Kept(0, 7),
         b.black_queen_side_castle /\ Kept(0, 0)>>

RightsFollowRule(valid) ==
    \A i \in 1..Len(valid.moves) :
        RightsOf(make_move(valid.board, valid.moves[i]))
        = ExpectedRights(self, valid.moves[i])

\* C10: for every move of get_valid_moves, make_move changes the castling
\* rights exactly by the rule of ExpectedRights and leaves every other
\* right as it was
C10_RightsUpdateRule == RightsFollowRule(get_valid_moves(self))

\* a white rook has left a1 and taken the rook on a8: both queen side
\* rights are gone, both king side rights are kept
C10_Witness ==
    /\ move_log # <<>>
    /\ LastMove.piece_moved = Rook(TRUE)
    /\ LastMove.piece_captured = Rook(FALSE)
    /\ <<LastMove.start_row, LastMove.start_col>> = <<7, 0>>
    /\ <<LastMove.end_row, LastMove.end_col>> = <<0, 0>>
    /\ LastMove.castle_rights = CastleRights(TRUE, TRUE, TRUE, TRUE)
    /\ RightsOf(self) = <<TRUE, FALSE, TRUE, FALSE>>

\* the steps of the three operations and what each does to move_log:
\* make_move appends one record and keeps those below, undo_move takes
\* the last record off a log that holds one, get_valid_moves keeps the log
LogStep ==
    /\ MakeMove => /\ Len(move_log') = Len(move_log) + 1
                   /\ SubSeq(move_log', 1, Len(move_log)) = move_log
    /\ (UndoMove /\ undo_move_result(self))
       => /\ Len(move_log') = Len(move_log) - 1
          /\ move_log' = SubSeq(move_log, 1, Len(move_log) - 1)
    /\ GetValidMoves => move_log' = move_log

\* C11: the log of a new Board is empty, every make_move appends exactly
\* one record and every undo_move that returns True removes exactly the
\* last one, so that the length of move_log is the number of make_move
\* calls less the number of successful undo_move calls
C11_LogCountsMoves == (move_log = <<>>) /\ [][LogStep]_vars

\* moves were made and the undo of the last takes one record off
C11_Witness ==
    /\ Len(move_log) >= 2
    /\ undo_move_result(self)
    /\ Len(undo_move(self).move_log) = Len(move_log) - 1
    /\ undo_move(self).move_log = SubSeq(move_log, 1, Len(move_log) - 1)

IsValid(valid, move) == \E i \in 1..Len(valid.moves) : MoveEq(valid.moves[i], move)

\* make_move(move) leaves the position and the log as they are
LeftAlone(move) ==
    /\ Position(make_move(self, move)) = Position(self)
    /\ make_move(self, move).move_log = move_log

\* the moves of the list that are not equal to any move of get_valid_moves
\* are left alone
RejectedIn(valid, moves) ==
    \A i \in 1..Len(moves) : ~IsValid(valid, moves[i]) => LeftAlone(moves[i])

InvalidRejected(valid) ==
    /\ RejectedIn(valid, _get_all_possible_moves(Flip(self)))
    /\ RejectedIn(valid, _get_all_possible_moves(self))

\* C12: make_move with a move equal to no move of get_valid_moves (a move
\* of a piece of the side not to move, a move that leaves the own king
\* attacked) is refused and leaves squares, side to move, castling
\* rights, en passant square, king locations and move_log unchanged
C12_InvalidMoveRejected == InvalidRejected(get_valid_moves(self))

\* C13: undo_move with an empty move_log returns False and changes
\* nothing: squares, side to move, castling rights, en passant square,
\* king locations, the checkmate and stalemate flags and move_log stay
C13_UndoOnEmptyLog ==
    move_log = <<>> => ~undo_move_result(self) /\ undo_move(self) = self

\* the new board: nothing to undo, the call reports it and the board stays
C13_Witness ==
    /\ move_log = <<>>
    /\ squares = StartSquares
    /\ ~undo_move_result(self)
    /\ undo_move(self) = self

NoneRaises(valid) ==
    \A i \in 1..Len(valid.moves) : ~make_move_raises(valid.board, valid.moves[i])

\* C14: in every reachable state make_move completes without raising for
\* every move of get_valid_moves; a castling move finds a rook on the
\* corner it is taken from
C14_ValidMoveNeverRaises == NoneRaises(get_valid_moves(self))

QueenSideCastleFindsRook(valid) ==
    \E i \in 1..Len(valid.moves) :
        /\ valid.moves[i].is_castle_move
        /\ valid.moves[i].end_col = 2
        /\ valid.board.squares[valid.moves[i].end_row][0] = Rook(white_to_move)
        /\ ~make_move_raises(valid.board, valid.moves[i])

\* castling queen side is offered and the rook stands on the a-file corner
C14_Witness == QueenSideCastleFindsRook(get_valid_moves(self))

\* the number of moves get_valid_moves returns after the n-th move of the
\* list is made, summed over the first n moves of the list
RECURSIVE SumReplies(_, _)
SumReplies(valid, n) ==
    IF n = 0 THEN 0
    ELSE Len(get_valid_moves(make_move(valid.board, valid.moves[n])).moves)
         + SumReplies(valid, n - 1)

Perft(valid) ==
    /\ Len(valid.moves) = 20
    /\ SumReplies(valid, Len(valid.moves)) = 400

\* C15: from the starting position get_valid_moves returns 20 moves, and
\* the positions reached by them have 400 moves between them
C15_PerftTwoPlies == (self = reset_board) => Perft(get_valid_moves(self))

\* a position one move from the start, where the reply has 20 moves
C15_Witness ==
    /\ Len(move_log) = 1
    /\ undo_move(self) = reset_board
    /\ Len(get_valid_moves(self).moves) = 20

\* the king of the side to move stands on a square the other side attacks
KingAttacked(b) ==
    \E at \in Kings(b, b.white_to_move) :
        is_square_attacked(b, at[1], at[2], b.white_to_move)

\* the flags get_valid_moves sets and the three classifiers of rules.py
\* all say what the position is: mate and stale are the outcomes of
\* is_checkmate and is_stalemate, state is that of get_game_state
Classified(valid, mated, stuck, mate, stale, state) ==
    /\ valid.board.checkmate = mated
    /\ valid.board.stalemate = stuck
    /\ mate.result = mated
    /\ stale.result = stuck
    /\ ~state.raised => /\ (state.result = "checkmate") = mated
                        /\ (state.result = "stalemate") = stuck
    /\ (mated \/ stuck) => ~state.raised
    /\ ~(valid.board.checkmate /\ valid.board.stalemate)
    /\ ~(mate.result /\ stale.result)

\* 1. f3 e5 2. g4 Qh4
FoolsMate == <<mv(6, 2, 6, 3), mv(5, 7, 5, 5), mv(7, 2, 7, 4), mv(4, 8, 8, 4)>>

AfterFoolsMate ==
    /\ Len(move_log) = Len(FoolsMate)
    /\ \A i \in 1..Len(FoolsMate) : Coords(move_log[i]) = FoolsMate[i]

\* the board holds the position of the string Fen1
CanonicalStalemate ==
    /\ move_log = <<>>
    /\ Position(self) = Position(load_from_fen(self, Fen1))

Examples(valid, mate, stale, state) ==
    /\ AfterFoolsMate
       => /\ Len(valid.moves) = 0
          /\ valid.board.checkmate /\ ~valid.board.stalemate
          /\ mate.result
          /\ state = Returned("checkmate", valid.board)
    /\ CanonicalStalemate
       => /\ Len(valid.moves) = 0
          /\ valid.board.stalemate /\ ~valid.board.checkmate
          /\ stale.result
          /\ state = Returned("stalemate", valid.board)

TerminalTests(valid, mate, stale, state) ==
    /\ Classified(valid, KingAttacked(self) /\ Len(valid.moves) = 0,
                  ~KingAttacked(self) /\ Len(valid.moves) = 0,
                  mate, stale, state)
    /\ Examples(valid, mate, stale, state)

\* C16: checkmate is reported exactly when the king of the side to move is
\* attacked and get_valid_moves returns no move, stalemate exactly when it
\* is not attacked and there is no move, never both; the position after
\* 1. f3 e5 2. g4 Qh4 is checkmate and the canonical stalemate position set
\* up from its string is stalemate.  This holds for the flags
\* get_valid_moves sets and for is_checkmate, is_stalemate and
\* get_game_state of rules.py.
C16_TerminalPositionsClassified ==
    TerminalTests(get_valid_moves(self), is_checkmate(self),
                  is_stalemate(self), get_game_state(self))

\* the canonical stalemate position, after a caller asked for the state of
\* the game: the flag says stalemate and so does every classifier
C16_Witness ==
    /\ CanonicalStalemate
    /\ stalemate /\ ~checkmate
    /\ ~KingAttacked(self)
    /\ Len(get_valid_moves(self).moves) = 0
    /\ is_stalemate(self).result
    /\ get_game_state(self).result = "stalemate"

PromotionKinds == {"Q", "R", "B", "N"}

\* the list holds the i-th move's squares with a promotion to the kind, and
\* make_move of that variant puts a piece of the kind on the end square
Offers(valid, i, kind) ==
    \E j \in 1..Len(valid.moves) :
        /\ Coords(valid.moves[j]) = Coords(valid.moves[i])
        /\ valid.moves[j].is_pawn_promotion
        /\ piece_type(valid.moves[j].promotion_piece) = kind
        /\ LET placed == make_move(valid.board, valid.moves[j])
                            .squares[valid.moves[j].end_row][valid.moves[j].end_col]
           IN  /\ piece_type(placed) = kind
               /\ is_white(placed) = is_white(valid.moves[j].piece_moved)

FourVariants(valid) ==
    \A i \in 1..Len(valid.moves) :
        valid.moves[i].is_pawn_promotion
        => \A kind \in PromotionKinds : Offers(valid, i, kind)

\* C17: a pawn move that reaches the far rank is in the list of valid moves
\* four times, once for each of queen, rook, bishop and knight, and
\* make_move puts the chosen kind on the promotion square.
C17_PromotionOffersFourKinds == FourVariants(get_valid_moves(self))

\* the number of pieces on the board
Pieces(b) ==
    Cardinality({at \in (0..7) \X (0..7) : b.squares[at[1]][at[2]] # None})

StandardStart(b) ==
    /\ b.squares = StartSquares
    /\ \A row \in 2..5 : \A col \in 0..7 : b.squares[row][col] = None
    /\ Pieces(b) = 32
    /\ b.white_to_move
    /\ RightsOf(b) = <<TRUE, TRUE, TRUE, TRUE>>
    /\ b.white_king_location = <<7, 4>> /\ b.black_king_location = <<0, 4>>
    /\ b.en_passant_possible = <<>>
    /\ b.move_log = <<>>
    /\ ~b.checkmate /\ ~b.stalemate

\* C18: reset_board(), called in any reachable state, leaves the standard
\* starting position: the four middle ranks empty, 32 pieces, white to
\* move, all castling rights, no en passant square, an empty move log and
\* both result flags False.
C18_ResetGivesStandardStart == StandardStart(reset_board_on(self))

\* what a repetition compares: placement, side to move, castling rights
\* and en passant square
Signature(b) ==
    <<b.squares, b.white_to_move, RightsOf(b), b.en_passant_possible>>

\* the board k moves ago
RECURSIVE Undone(_, _)
Undone(b, k) == IF k = 0 THEN b ELSE undo_move(Undone(b, k - 1))

\* the earlier positions of the game that equal the current one
Earlier(b) ==
    {k \in 1..Len(b.move_log) : Signature(Undone(b, k)) = Signature(b)}

Terminal(valid) == Len(valid.moves) = 0

RepetitionTest(b, valid) ==
    /\ ~is_threefold_repetition(b).raised
    /\ is_threefold_repetition(b).result = (Cardinality(Earlier(b)) >= 2)
    /\ (/\ b.move_log # <<>>
        /\ ~Terminal(valid)
        /\ ~is_insufficient_material(b)
        /\ Cardinality(Earlier(b)) < 2)
       => get_game_state(b) = Returned("ongoing", valid.board)

\* C19: is_threefold_repetition returns True exactly when the signature of
\* the current position equals that of at least two earlier positions of
\* the move log, and False otherwise, without an error; get_game_state
\* returns 'ongoing' for a position with a non-empty move log that is
\* neither terminal nor repeated.
C19_ThreefoldRepetition == RepetitionTest(self, get_valid_moves(self))

\* the squares that hold one side's pieces other than the king
Material(b, white) ==
    {at \in (0..7) \X (0..7) :
        /\ b.squares[at[1]][at[2]] # None
        /\ is_white(b.squares[at[1]][at[2]]) = white
        /\ piece_type(b.squares[at[1]][at[2]]) # "K"}

KindAt(b, at) == piece_type(b.squares[at[1]][at[2]])

SquareColour(at) == (at[1] + at[2]) % 2

\* no mate can be given: bare kings, a single bishop or knight on the
\* board, or one bishop each on squares of one colour
DeadPosition(b, white, black) ==
    \/ white \cup black = {}
    \/ \E at \in white \cup black :
          /\ white \cup black = {at}
          /\ KindAt(b, at) \in {"B", "N"}
    \/ \E w \in white : \E k \in black :
          /\ white = {w} /\ black = {k}
          /\ KindAt(b, w) = "B" /\ KindAt(b, k) = "B"
          /\ SquareColour(w) = SquareColour(k)

\* C20: is_insufficient_material is True exactly for king against king, for
\* king and a single bishop or knight against a bare king, and for king and
\* bishop against king and bishop with the bishops on squares of one
\* colour; it is False for every other material.
C20_InsufficientMaterial ==
    is_insufficient_material(self)
        = DeadPosition(self, Material(self, TRUE), Material(self, FALSE))

\* king and bishop against king and bishop, the bishops on the squares e3
\* and d6 of one colour: insufficient material
C20_Witness ==
    /\ Position(self) = Position(load_from_fen(self, Fen8))
    /\ Material(self, TRUE) = {<<5, 4>>} /\ Material(self, FALSE) = {<<2, 3>>}
    /\ KindAt(self, <<5, 4>>) = "B" /\ KindAt(self, <<2, 3>>) = "B"
    /\ is_insufficient_material(self)
    /\ get_game_state(self).result = "insufficient_material"

\* the board b, its position string and the board a caller gets who makes
\* a Board and loads the string
RoundTrip(b, fen, loaded) ==
    /\ loaded.squares = b.squares
    /\ loaded.white_to_move = b.white_to_move
    /\ RightsOf(loaded) = RightsOf(b)
    /\ loaded.en_passant_possible = b.en_passant_possible
    /\ loaded.white_king_location = b.white_king_location
    /\ loaded.black_king_location = b.black_king_location
    /\ get_fen(loaded) = fen

\* C21: loading the position string of a reachable state gives a board with
\* the same piece on every square, the same side to move, castling rights,
\* en passant square and king locations, and with the same position string.
C21_PositionStringRoundTrip ==
    RoundTrip(self, get_fen(self), load_from_fen(reset_board, get_fen(self)))

\* load_from_fen refuses the string and the board is as it was
Rejected(b, fen) ==
    /\ load_from_fen_error(fen) = "MalformedPosition"
    /\ load_from_fen_call(b, fen) = b

\* C22: load_from_fen, given a string that is not a consistent position (a
\* king missing, more than eight squares in a rank, fewer than four
\* fields), ends with a MalformedPosition error and leaves the board as it
\* was before the call.
C22_MalformedPositionRejected == \A fen \in MalformedFens : Rejected(self, fen)

sign(n) == IF n > 0 THEN 1 ELSE IF n < 0 THEN -1 ELSE 0

\* the squares strictly between two squares of a line are empty
ClearBetween(b, from, to) ==
    \A i \in 1..7 :
        i < abs(to[1] - from[1]) \/ i < abs(to[2] - from[2])
        => b.squares[from[1] + i * sign(to[1] - from[1])]
                    [from[2] + i * sign(to[2] - from[2])] = None

OnLine(from, to) == from[1] = to[1] \/ from[2] = to[2]

OnDiagonal(from, to) == abs(to[1] - from[1]) = abs(to[2] - from[2])

\* the piece on the square from attacks the square to, by the way its kind
\* captures and the occupancy of the grid
Attacks(b, from, to) ==
    LET piece == b.squares[from[1]][from[2]]
        dr == to[1] - from[1]
        dc == to[2] - from[2]
    IN  /\ from # to
        /\ CASE piece_type(piece) = "P" ->
                    dr = (IF is_white(piece) THEN -1 ELSE 1) /\ abs(dc) = 1
             [] piece_type(piece) = "N" -> {abs(dr), abs(dc)} = {1, 2}
             [] piece_type(piece) = "K" -> abs(dr) <= 1 /\ abs(dc) <= 1
             [] piece_type(piece) = "R" ->
                    OnLine(from, to) /\ ClearBetween(b, from, to)
             [] piece_type(piece) = "B" ->
                    OnDiagonal(from, to) /\ ClearBetween(b, from, to)
             [] piece_type(piece) = "Q" ->
                    /\ OnLine(from, to) \/ OnDiagonal(from, to)
                    /\ ClearBetween(b, from, to)
             [] OTHER -> FALSE

\* the pieces of the colour other than white's argument that attack a square
Attackers(b, to, white) ==
    {from \in (0..7) \X (0..7) :
        /\ b.squares[from[1]][from[2]] # None
        /\ is_white(b.squares[from[1]][from[2]]) # white
        /\ Attacks(b, from, to)}

\* C23: rules.is_square_attacked(board, row, col, is_white) is True exactly
\* when a piece of the other colour attacks the square by geometry on the
\* current grid: a pawn on a diagonal it captures toward, whether the
\* square is occupied or not, a knight, a rook, bishop or queen that meets
\* no piece on the way, or an adjacent king.
C23_SquareAttackedByGeometry ==
    \A to \in (0..7) \X (0..7) : \A white \in BOOLEAN :
        is_square_attacked(self, to[1], to[2], white)
            = (Attackers(self, to, white) # {})

\* the empty square g1 is attacked by the black pawn on h2 and by nothing
\* else
C23_Witness ==
    /\ squares[7][6] = None
    /\ Attackers(self, <<7, 6>>, TRUE) = {<<6, 7>>}
    /\ squares[6][7] = Pawn(FALSE)
    /\ is_square_attacked(self, 7, 6, TRUE)

PromotionKind(move) ==
    IF move.promotion_piece = None THEN "None"
    ELSE piece_type(move.promotion_piece)

\* the Move values of the game: those played, then those get_valid_moves
\* returned
MovesOf(valid) == move_log \o valid.moves

EqualityRule(moves) ==
    \A i \in 1..Len(moves) : \A j \in 1..Len(moves) :
        MoveEq(moves[i], moves[j])
            = (Coords(moves[i]) = Coords(moves[j])
               /\ PromotionKind(moves[i]) = PromotionKind(moves[j]))

\* C24: two Move values are equal if and only if their origin square, their
\* destination square and their promotion kind match; moves with the same
\* squares and different promotion pieces are not equal.
C24_MoveEqualityWithPromotion == EqualityRule(MovesOf(get_valid_moves(self)))

\* the rooks, bishops and queens of the side that is not to move in b that
\* attack the king of the side to move
LineAttackers(b) ==
    {from \in (0..7) \X (0..7) :
        /\ piece_type(b.squares[from[1]][from[2]]) \in {"R", "B", "Q"}
        /\ \E at \in Kings(b, b.white_to_move) :
              from \in Attackers(b, at, b.white_to_move)}

\* the king of the side that moves stands on a line with an enemy rook,
\* bishop or queen once the move is made, with nothing between
Exposes(move) == LineAttackers(Flip(make_move(self, move))) # {}

\* no en passant capture and no move of another piece than the king that
\* opens a line to the king is among the valid moves
NoneExposes(valid, moves) ==
    \A i \in 1..Len(moves) :
        (piece_type(moves[i].piece_moved) # "K" /\ Exposes(moves[i]))
        => ~IsValid(valid, moves[i])

\* an en passant capture takes the pawn beside the capturing pawn, on the
\* row it starts from and the column it arrives on, and arrives on a
\* square that was empty
EnPassantApplied(b, move) ==
    /\ b.squares[move.end_row][move.end_col] = None
    /\ b.squares[move.start_row][move.end_col] = Pawn(~b.white_to_move)
    /\ make_move(b, move).squares
       = SetSq(SetSq(SetSq(b.squares, move.start_row, move.start_col, None),
                     move.start_row, move.end_col, None),
               move.end_row, move.end_col, Pawn(b.white_to_move))

EnPassantsApplied(valid) ==
    \A i \in 1..Len(valid.moves) :
        valid.moves[i].is_en_passant_move
        => EnPassantApplied(valid.board, valid.moves[i])

\* C25: an en passant capture that would leave the king of the mover on a
\* rank opened to an enemy rook or queen is not among the valid moves, nor
\* is a move of a pinned piece off the line of its pin; an en passant
\* capture that is made removes the pawn on the start row and destination
\* column, and its destination square was empty.
C25_PinsAndEnPassant ==
    /\ NoneExposes(get_valid_moves(self), _get_all_possible_moves(self))
    /\ EnPassantsApplied(get_valid_moves(self))

\* the capture bxc6 en passant is generated in the position of Fen16,
\* would leave the king on a5 in the line of the rook on h5, and is not a
\* valid move
ExposingEnPassant(valid, moves) ==
    \E i \in 1..Len(moves) :
        /\ moves[i].is_en_passant_move
        /\ Coords(moves[i]) = <<3, 1, 2, 2>>
        /\ LineAttackers(Flip(make_move(self, moves[i]))) = {<<3, 7>>}
        /\ ~IsValid(valid, moves[i])

C25_Witness ==
    /\ squares = load_from_fen(self, Fen16).squares
    /\ white_to_move
    /\ ExposingEnPassant(get_valid_moves(self), _get_all_possible_moves(self))

\* the side to move in b has no valid move and its king is attacked
Checkmated(b, valid) == Len(valid.moves) = 0 /\ KingAttacked(b)

\* the side to move in b has no valid move and its king is not attacked
Stalemated(b, valid) == Len(valid.moves) = 0 /\ ~KingAttacked(b)

\* every step of make_move ends with the flags of the position it reaches
FlagsAfterMove ==
    MakeMove
    => /\ Checkmated(self', get_valid_moves(self')) => checkmate'
       /\ Stalemated(self', get_valid_moves(self')) => stalemate'

\* C26: right after make_move has applied a move that checkmates the
\* opponent, checkmate is True, and right after a move that stalemates the
\* opponent, stalemate is True, with no other call of the engine between.
C26_FlagsSetByMakeMove == [][FlagsAfterMove]_vars

FlagsMatchList(valid) ==
    /\ (valid.board.checkmate \/ valid.board.stalemate) = (Len(valid.moves) = 0)
    /\ ~(valid.board.checkmate /\ valid.board.stalemate)

\* C27: when get_valid_moves returns, checkmate or stalemate is True if and
\* only if the list returned is empty, though the flags are set before the
\* castling moves are appended; the two flags are never both True.
C27_FlagsIffNoMoves == FlagsMatchList(get_valid_moves(self))

\* the list of the moves that passed the filter is not empty, a castling
\* move is appended to it and both flags are False
CastleAppended(valid, filtered) ==
    /\ Len(filtered.moves) > 0
    /\ Len(valid.moves) > Len(filtered.moves)
    /\ valid.moves[Len(valid.moves)].is_castle_move
    /\ ~valid.board.checkmate /\ ~valid.board.stalemate

C27_Witness ==
    CastleAppended(get_valid_moves(self),
                   FilterLoop(self, _get_all_possible_moves(self)))

\* a right that is set has its king and its rook on their home squares
RightsJustified(b) ==
    /\ b.white_king_side_castle
       => b.squares[7][4] = King(TRUE) /\ b.squares[7][7] = Rook(TRUE)
    /\ b.white_queen_side_castle
       => b.squares[7][4] = King(TRUE) /\ b.squares[7][0] = Rook(TRUE)
    /\ b.black_king_side_castle
       => b.squares[0][4] = King(FALSE) /\ b.squares[0][7] = Rook(FALSE)
    /\ b.black_queen_side_castle
       => b.squares[0][4] = King(FALSE) /\ b.squares[0][0] = Rook(FALSE)

\* C28: in every state reached by make_move of valid moves and undo_move
\* from the starting position, a castling right that is set implies that
\* the king of that colour stands on e1 or e8 and a rook of that colour on
\* the home corner of that wing.
C28_RightsImplyHomeSquares == RightsJustified(self)

\* the rook on a8 was captured: black has lost the queen side right and
\* keeps the king side right, king and rook standing on e8 and h8
C28_Witness ==
    /\ move_log # <<>>
    /\ squares[0][0] # Rook(FALSE)
    /\ ~black_queen_side_castle
    /\ black_king_side_castle
    /\ squares[0][4] = King(FALSE) /\ squares[0][7] = Rook(FALSE)

-----------------------------------------------------------------------------

\* every piece on a square of the board has that square in its row and col
InPlace(sq, p) ==
    \A row \in 0..7, col \in 0..7 :
        sq[row][col] # None =>
            /\ p.squares[row][col].row = row
            /\ p.squares[row][col].col = col

\* C29: after any sequence of make_move, undo_move and get_valid_moves from
\* the starting position, every piece stored at squares[r][c] has row = r
\* and col = c: pieces moved, castled rooks, promoted pieces and pieces
\* restored by undoing a capture or an en-passant capture included
C29_PiecesKnowTheirSquare == InPlace(squares, pieces)

\* a castled rook stands on f1 and a promoted queen on g1
C29_Witness ==
    /\ \E k \in 1..Len(move_log) : move_log[k].is_castle_move
    /\ \E k \in 1..Len(move_log) : move_log[k].is_pawn_promotion
    /\ squares[7][5] = Rook(TRUE)
    /\ squares[7][6] = Queen(FALSE)
    /\ pieces.squares[7][5].col = 5
    /\ pieces.squares[7][6].row = 7

-----------------------------------------------------------------------------

\* the moved fields of the pieces on the squares of the board
MovedFields(p) ==
    [row \in 0..7 |-> [col \in 0..7 |-> p.squares[row][col].moved]]

\* whichever move of the list is made and undone, and when the list is
\* asked for, the moved field of every piece on the board is left as it was
MovedKept(p, valid) ==
    /\ \A i \in 1..Len(valid.moves) :
          MovedFields(undo_pieces(make_move_pieces(p, valid.moves[i]),
                                  valid.moves[i])) = MovedFields(p)
    /\ MovedFields(get_valid_moves_pieces(p, valid.board)) = MovedFields(p)

\* C30: undo_move restores the prior moved status of the piece that moved,
\* and of the rook relocated by castling: a make_move followed by undo_move,
\* and therefore a call of get_valid_moves, leaves the moved field of every
\* piece on the board as it was before
C30_UndoRestoresMoved == MovedKept(pieces, get_valid_moves(self))

-----------------------------------------------------------------------------

\* after the move, made on the board b, no king of the mover is attacked
MoverSafe(b, move) == ~KingAttacked(Flip(make_move(b, move)))

\* the move is in the list, with its flags
Present(moves, move) == \E j \in 1..Len(moves) : moves[j] = move

\* every candidate that leaves the mover's king safe is in the list
\* returned, and no two candidates are equal for Move.__eq__
FilterComplete(b, candidates, valid) ==
    /\ \A i \in 1..Len(candidates) :
          MoverSafe(b, candidates[i]) => Present(valid.moves, candidates[i])
    /\ \A i \in 1..Len(candidates) : \A j \in 1..Len(candidates) :
          i # j => ~MoveEq(candidates[i], candidates[j])

\* C31: every move of _get_all_possible_moves for the side to move whose
\* application leaves the mover's king not attacked is in the list
\* get_valid_moves returns, and removing a rejected move never removes
\* another one: no two candidates of a call share origin and destination
C31_FilterComplete ==
    FilterComplete(self, _get_all_possible_moves(self), get_valid_moves(self))

-----------------------------------------------------------------------------

\* the two attack queries give one answer for every square of the board b
QueriesAgree(b) ==
    \A row \in 0..7 : \A col \in 0..7 :
        _is_square_attacked(b, row, col)
            = is_square_attacked(b, row, col, b.white_to_move)

\* C32: for every reachable position and every square (row, col), empty or
\* occupied, Board._is_square_attacked(row, col) returns the same value as
\* rules.is_square_attacked(board, row, col, board.white_to_move)
C32_AttackQueriesAgree == QueriesAgree(self)

-----------------------------------------------------------------------------

\* the two tests of check give one answer on the board b, and the flags
\* get_valid_moves sets are the answers of is_checkmate and is_stalemate
ChecksAgree(b, valid, mate, stale) ==
    /\ _is_in_check(b) = is_in_check(b, b.white_to_move)
    /\ valid.board.checkmate = mate.result
    /\ valid.board.stalemate = stale.result

\* C33: for every position reachable by legal play, Board._is_in_check()
\* returns the same value as rules.is_in_check(board, board.white_to_move),
\* so the checkmate and stalemate flags set by get_valid_moves agree with
\* rules.is_checkmate and rules.is_stalemate
C33_CheckTestsAgree ==
    ChecksAgree(self, get_valid_moves(self), is_checkmate(self),
                is_stalemate(self))

-----------------------------------------------------------------------------

\* White is to move on the board b exactly when its move_log has an even
\* number of moves
EvenForWhite(b) == b.white_to_move = (Len(b.move_log) % 2 = 0)

\* the side to move follows the length of move_log on the board, on the
\* board get_valid_moves leaves, which has the same side to move, after
\* each move of the list and after undo_move
SideFollowsLog(b, valid) ==
    /\ EvenForWhite(b)
    /\ EvenForWhite(valid.board)
    /\ valid.board.white_to_move = b.white_to_move
    /\ \A i \in 1..Len(valid.moves) :
          /\ EvenForWhite(make_move(valid.board, valid.moves[i]))
          /\ make_move(valid.board, valid.moves[i]).white_to_move
                 = ~b.white_to_move
    /\ EvenForWhite(undo_move(b))
    /\ undo_move(b).white_to_move
           = (IF undo_move_result(b) THEN ~b.white_to_move
              ELSE b.white_to_move)

\* C34: in every state reached from a new Board by make_move, undo_move and
\* get_valid_moves, white_to_move is True exactly when len(move_log) is
\* even: make_move and a successful undo_move flip the side to move once,
\* and the flips inside get_valid_moves, _is_in_check and
\* _is_square_attacked are reverted before they return
C34_SideToMoveParity == SideFollowsLog(self, get_valid_moves(self))

\* Black is to move after seven moves and get_valid_moves has found the
\* mate
C34_Witness ==
    /\ Len(move_log) = 7
    /\ ~white_to_move
    /\ checkmate

-----------------------------------------------------------------------------

\* the board after the castling move, made on the board b: king and rook
\* stand on their new files of the rank, the rook is the one that stood on
\* the corner, the squares they left are empty, the king location of the
\* mover is the new square and the mover has no castling right left
Castled(b, move, after) ==
    LET white == b.white_to_move
        row == move.start_row
        king_side == move.end_col - move.start_col = 2
        corner == IF king_side THEN 7 ELSE 0
        rook_col == IF king_side THEN 5 ELSE 3
        king_col == IF king_side THEN 6 ELSE 2
    IN /\ move.end_row = row
       /\ move.start_col = 4
       /\ move.end_col = king_col
       /\ b.squares[row][4] = King(white)
       /\ b.squares[row][corner] = Rook(white)
       /\ after.squares[row][king_col] = King(white)
       /\ after.squares[row][rook_col] = Rook(white)
       /\ after.squares[row][4] = None
       /\ after.squares[row][corner] = None
       /\ \A r \in 0..7 : \A c \in 0..7 :
             (r # row \/ c \notin {4, corner, rook_col, king_col})
                 => after.squares[r][c] = b.squares[r][c]
       /\ (IF white THEN after.white_king_location
           ELSE after.black_king_location) = <<row, king_col>>
       /\ (IF white THEN after.black_king_location
           ELSE after.white_king_location)
              = (IF white THEN b.black_king_location
                 ELSE b.white_king_location)
       /\ IF white
          THEN ~after.white_king_side_castle /\ ~after.white_queen_side_castle
          ELSE ~after.black_king_side_castle /\ ~after.black_queen_side_castle

CastlesRelocate(valid) ==
    \A i \in 1..Len(valid.moves) :
        valid.moves[i].is_castle_move
            => Castled(valid.board, valid.moves[i],
                       make_move(valid.board, valid.moves[i]))

\* C35: applying a castling move relocates the matching rook: after a
\* king-side castle the king is on the g-file and the rook has moved from
\* the h-file to the f-file of the rank, after a queen-side castle the king
\* is on the c-file and the rook has moved from the a-file to the d-file;
\* the squares the king and the rook left are empty, the king location of
\* the mover is updated and both castling rights of the mover are cleared
C35_CastlingRelocatesRook == CastlesRelocate(get_valid_moves(self))

\* Black has just castled queen-side, after White did
C35_Witness ==
    /\ move_log # <<>>
    /\ LastMove.is_castle_move
    /\ LastMove.end_col = 2
    /\ squares[0][2] = King(FALSE)
    /\ squares[0][3] = Rook(FALSE)
    /\ squares[7][3] = Rook(TRUE)

-----------------------------------------------------------------------------

\* no move of the list is a castling move
NoCastle(moves) == \A k \in 1..Len(moves) : ~moves[k].is_castle_move

\* the lists the check test and the square-attack test draw on the board b
\* hold no castling move: that of the opponent on b, and that of the other
\* side after each candidate
TestsWithoutCastle(b, candidates) ==
    /\ NoCastle(candidates)
    /\ NoCastle(_get_all_possible_moves(Flip(b)))
    /\ \A i \in 1..Len(candidates) :
          NoCastle(_get_all_possible_moves(make_move(b, candidates[i])))

\* get_valid_moves returns, with one make_move and one undo_move for each
\* candidate, and move_log as long as it was
OncePerCandidate(b, candidates, valid) ==
    /\ TestsWithoutCastle(b, candidates)
    /\ FilterCalls(b, candidates) = Len(candidates)
    /\ Len(valid.moves) <= Len(candidates) + 2
    /\ valid.board.move_log = b.move_log

\* C36: get_valid_moves always terminates and the filter does not recurse
\* into itself: the check test and the square-attack test generate only
\* pseudo-legal non-castling moves, so each call of get_valid_moves makes
\* one make_move and one undo_move for each pseudo-legal candidate
C36_FilterTerminates ==
    OncePerCandidate(self, _get_all_possible_moves(self),
                     get_valid_moves(self))

\* a castling move is offered, appended after the filter went through the
\* candidates, moves of the king among them
CastleOffered(valid) ==
    /\ Len(valid.moves) >= 2
    /\ valid.moves[Len(valid.moves)].is_castle_move
    /\ \E k \in 1..(Len(valid.moves) - 1) :
          piece_type(valid.moves[k].piece_moved) = "K"

C36_Witness == CastleOffered(get_valid_moves(self))

-----------------------------------------------------------------------------

\* the generator of the Board for the kind of the piece on (row, col),
\* called on that square
BoardGenerator(b, row, col) ==
    CASE piece_type(b.squares[row][col]) = "P" -> _get_pawn_moves(b, row, col)
      [] piece_type(b.squares[row][col]) = "N" -> _get_knight_moves(b, row, col)
      [] piece_type(b.squares[row][col]) = "B" -> _get_bishop_moves(b, row, col)
      [] piece_type(b.squares[row][col]) = "R" -> _get_rook_moves(b, row, col)
      [] piece_type(b.squares[row][col]) = "Q" ->
             _get_bishop_moves(b, row, col) \o _get_rook_moves(b, row, col)
      [] piece_type(b.squares[row][col]) = "K" -> _get_king_moves(b, row, col)

\* origin, destination and en-passant flag of the moves of a list
Triples(moves) ==
    {<<moves[k].start_row, moves[k].start_col, moves[k].end_row,
       moves[k].end_col, moves[k].is_en_passant_move>> : k \in 1..Len(moves)}

GeneratorsAgree(b, p) ==
    \A row \in 0..7 : \A col \in 0..7 :
        b.squares[row][col] # None
            => Triples(Piece_get_valid_moves(b, b.squares[row][col],
                                             p.squares[row][col]))
                   = Triples(BoardGenerator(b, row, col))

\* C37: for every reachable position and every piece p on the board,
\* p.get_valid_moves(board) of pieces.py yields the same set of (origin,
\* destination, en-passant flag) triples as the Board generator for the
\* kind of p called on the square of p
C37_GeneratorsAgree == GeneratorsAgree(self, pieces)

\* a pawn that has moved two rows from its home has an en passant capture
\* among its moves, and a queen of the other side has left its home square
C37_Witness ==
    /\ en_passant_possible # <<>>
    /\ \E row \in {3, 4} : \E col \in 0..7 :
          /\ piece_type(squares[row][col]) = "P"
          /\ is_white(squares[row][col]) = white_to_move
          /\ \E t \in Triples(Pawn_get_valid_moves(self, squares[row][col],
                                                   pieces.squares[row][col])) :
                t[5]
    /\ \E row \in 1..6 : \E col \in 0..7 :
          /\ piece_type(squares[row][col]) = "Q"
          /\ is_white(squares[row][col]) # white_to_move

====
